---- MODULE Spec2Model ----
(***************************************************************************)
(* Model of the MCMI-II VBScript-to-JavaScript pipeline:                   *)
(*   AdvancedVBScriptParser  (src/src/parser/AdvancedVBScriptParser.js)    *)
(*   AdvancedTranspiler      (src/src/transpiler/AdvancedTranspiler.js)    *)
(*   PostProcessor           (src/src/logger/Logger.js)                    *)
(*                                                                         *)
(* Text is modelled as a sequence of one-character strings, so that the    *)
(* regular expressions of the source act on characters exactly as the      *)
(* JavaScript engine applies them (leftmost match, greedy/lazy             *)
(* backtracking, global replace).                                          *)
(***************************************************************************)
EXTENDS Integers, Sequences, FiniteSets, TLC

(***************************************************************************)
(* Characters and character classes of JavaScript regular expressions.     *)
(***************************************************************************)
Lower ==
    <<"a","b","c","d","e","f","g","h","i","j","k","l","m",
      "n","o","p","q","r","s","t","u","v","w","x","y","z">>

Upper ==
    <<"A","B","C","D","E","F","G","H","I","J","K","L","M",
      "N","O","P","Q","R","S","T","U","V","W","X","Y","Z">>

Digit == {"0","1","2","3","4","5","6","7","8","9"}

Letter == {Lower[i] : i \in DOMAIN Lower} \cup {Upper[i] : i \in DOMAIN Upper}

\* \w
WordCh == Letter \cup Digit \cup {"_"}

\* \s
SpaceCh == {" ", "\t", "\n", "\r"}

\* String.prototype.toLowerCase on one character
LowerOf(c) ==
    IF \E i \in DOMAIN Upper : Upper[i] = c
    THEN Lower[CHOOSE i \in DOMAIN Upper : Upper[i] = c]
    ELSE c

UpperOf(c) ==
    IF \E i \in DOMAIN Lower : Lower[i] = c
    THEN Upper[CHOOSE i \in DOMAIN Lower : Lower[i] = c]
    ELSE c

\* the characters a literal c matches under the i flag
CaseFold(c) == {LowerOf(c), UpperOf(c)}

(***************************************************************************)
(* Regular-expression nodes.  A pattern is a sequence of nodes.            *)
(*   lit   : a literal text (ci: under the i flag)                         *)
(*   set   : a character class with a quantifier {min,max}, greedy or lazy *)
(*           (max < 0: no upper limit)                                     *)
(*   bol/eol/wb : the assertions ^, $ and \b                               *)
(*   open/close : the parentheses of capture group g                       *)
(*   opt   : (?:sub)?                                                      *)
(*   alt   : (?:sub|sub2)                                                  *)
(***************************************************************************)
Node(kind, str, ci, cs, neg, min, max, lazy, g, sub, sub2) ==
    [k |-> kind, str |-> str, ci |-> ci, cs |-> cs, neg |-> neg, min |-> min,
     max |-> max, lazy |-> lazy, g |-> g, sub |-> sub, sub2 |-> sub2]

SetNode(cs, neg, min, max, lazy) ==
    Node("set", <<>>, FALSE, cs, neg, min, max, lazy, 0, <<>>, <<>>)

Mark(kind, g) == Node(kind, <<>>, FALSE, {}, FALSE, 0, 0, FALSE, g, <<>>, <<>>)

\* one character of class cs
One(cs)      == SetNode(cs, FALSE, 1, 1, FALSE)
\* [^cs]
NotOne(cs)   == SetNode(cs, TRUE, 1, 1, FALSE)
\* cs*  cs+
Star(cs)     == SetNode(cs, FALSE, 0, -1, FALSE)
Plus(cs)     == SetNode(cs, FALSE, 1, -1, FALSE)
\* [^cs]*  [^cs]+
NotStar(cs)  == SetNode(cs, TRUE, 0, -1, FALSE)
NotPlus(cs)  == SetNode(cs, TRUE, 1, -1, FALSE)
\* .*  .+  .*?  .+?   (. is every character but a line terminator)
DotStar      == SetNode({"\n", "\r"}, TRUE, 0, -1, FALSE)
DotPlus      == SetNode({"\n", "\r"}, TRUE, 1, -1, FALSE)
DotStarLazy  == SetNode({"\n", "\r"}, TRUE, 0, -1, TRUE)
DotPlusLazy  == SetNode({"\n", "\r"}, TRUE, 1, -1, TRUE)
Bol          == Mark("bol", 0)
Eol          == Mark("eol", 0)
WordB        == Mark("wb", 0)
\* ^ and $ under the m flag
BolM         == Mark("bolm", 0)
EolM         == Mark("eolm", 0)
Open(g)      == Mark("open", g)
Close(g)     == Mark("close", g)
Opt(sub)     == Node("opt", <<>>, FALSE, {}, FALSE, 0, 1, FALSE, 0, sub, <<>>)
Alt(a, b)    == Node("alt", <<>>, FALSE, {}, FALSE, 0, 0, FALSE, 0, a, b)

\* a literal text, case-sensitive and under the i flag (one-node patterns)
Lit(str)  == <<Node("lit", str, FALSE, {}, FALSE, 0, 0, FALSE, 0, <<>>, <<>>)>>
LitI(str) == <<Node("lit", str, TRUE, {}, FALSE, 0, 0, FALSE, 0, <<>>, <<>>)>>

\* (sub) as capture group g
Grp(g, sub) == <<Open(g)>> \o sub \o <<Close(g)>>

(***************************************************************************)
(* The backtracking matcher.  M(s, rest, p, caps) matches the nodes rest   *)
(* against s from position p (1-based) and returns the end position and    *)
(* the capture positions of the first match in backtracking order: a       *)
(* greedy quantifier takes the largest count that lets the rest match, a   *)
(* lazy one the smallest.                                                  *)
(***************************************************************************)
NoCaps == [g \in 1..4 |-> <<0, 0>>]

Fail == [ok |-> FALSE, start |-> 0, end |-> 0, caps |-> NoCaps]

Min(S) == CHOOSE x \in S : \A y \in S : x <= y
Max(S) == CHOOSE x \in S : \A y \in S : x >= y

InClass(n, c) == IF n.neg THEN c \notin n.cs ELSE c \in n.cs

IsWordAt(s, p) == p >= 1 /\ p <= Len(s) /\ s[p] \in WordCh

\* the literal of node n stands at position p of s
LitAt(s, p, n) ==
    /\ p + Len(n.str) - 1 <= Len(s)
    /\ \A j \in 1..Len(n.str) :
         IF n.ci THEN LowerOf(s[p + j - 1]) = LowerOf(n.str[j])
         ELSE s[p + j - 1] = n.str[j]

\* how many characters from p on are in the class of n
RunTo(s, p, stop) == IF stop = {} THEN Len(s) - p + 1 ELSE Min(stop) - p

\* the same, at most n.max
RunLen(s, p, n) ==
    IF n.max >= 0 /\ RunTo(s, p, {q \in p..Len(s) : ~InClass(n, s[q])}) > n.max
    THEN n.max
    ELSE RunTo(s, p, {q \in p..Len(s) : ~InClass(n, s[q])})

RECURSIVE M(_, _, _, _)
RECURSIVE MNode(_, _, _, _, _)

\* a quantified class takes one of the counts in good, which let the rest match
MCount(s, n, t, p, caps, good) ==
    IF good = {} THEN Fail
    ELSE M(s, t, p + (IF n.lazy THEN Min(good) ELSE Max(good)), caps)

\* first is the match through the first alternative, other the rest after another
MEither(s, first, other, p, caps) ==
    IF first.ok THEN first ELSE M(s, other, p, caps)

M(s, rest, p, caps) ==
    IF Len(rest) = 0 THEN [ok |-> TRUE, start |-> 0, end |-> p, caps |-> caps]
    ELSE MNode(s, Head(rest), Tail(rest), p, caps)

\* the node n, then the nodes t
MNode(s, n, t, p, caps) ==
    CASE n.k = "lit" ->
           IF LitAt(s, p, n) THEN M(s, t, p + Len(n.str), caps) ELSE Fail
      [] n.k = "set" /\ n.min = 1 /\ n.max = 1 ->
           IF p <= Len(s) /\ InClass(n, s[p]) THEN M(s, t, p + 1, caps) ELSE Fail
      [] n.k = "set" /\ ~(n.min = 1 /\ n.max = 1) ->
           MCount(s, n, t, p, caps,
                  {c \in n.min..RunLen(s, p, n) : M(s, t, p + c, caps).ok})
      [] n.k = "bol" -> IF p = 1 THEN M(s, t, p, caps) ELSE Fail
      [] n.k = "eol" -> IF p = Len(s) + 1 THEN M(s, t, p, caps) ELSE Fail
      [] n.k = "bolm" ->
           IF p = 1 \/ s[p - 1] \in {"\n", "\r"} THEN M(s, t, p, caps) ELSE Fail
      [] n.k = "eolm" ->
           IF p = Len(s) + 1 \/ (p <= Len(s) /\ s[p] \in {"\n", "\r"})
           THEN M(s, t, p, caps) ELSE Fail
      [] n.k = "wb" ->
           IF IsWordAt(s, p - 1) # IsWordAt(s, p) THEN M(s, t, p, caps) ELSE Fail
      [] n.k = "open" -> M(s, t, p, [caps EXCEPT ![n.g] = <<p, p>>])
      [] n.k = "close" -> M(s, t, p, [caps EXCEPT ![n.g] = <<@[1], p>>])
      [] n.k = "opt" -> MEither(s, M(s, n.sub \o t, p, caps), t, p, caps)
      [] n.k = "alt" -> MEither(s, M(s, n.sub \o t, p, caps), n.sub2 \o t, p, caps)

RECURSIVE FirstOf(_)
\* the characters a match of re can start with: every character (any), or the
\* characters in cs (neg: not in cs)
FirstOf(re) ==
    IF Len(re) = 0 THEN [any |-> TRUE, neg |-> FALSE, cs |-> {}]
    ELSE CASE Head(re).k \in {"bol", "eol", "bolm", "eolm", "wb", "open", "close"} -> FirstOf(Tail(re))
           [] Head(re).k = "lit" /\ Len(Head(re).str) > 0 ->
                [any |-> FALSE, neg |-> FALSE,
                 cs |-> IF Head(re).ci
                        THEN {LowerOf(Head(re).str[1]), UpperOf(Head(re).str[1])}
                        ELSE {Head(re).str[1]}]
           [] Head(re).k = "set" /\ Head(re).min >= 1 ->
                [any |-> FALSE, neg |-> Head(re).neg, cs |-> Head(re).cs]
           [] OTHER -> [any |-> TRUE, neg |-> FALSE, cs |-> {}]

\* the positions >= from where a match of re, which starts with first, starts
StartsWithFirst(s, re, from, first) ==
    {p \in from..(Len(s) + 1) :
       /\ first.any \/ (p <= Len(s) /\ ((s[p] \in first.cs) # first.neg))
       /\ M(s, re, p, NoCaps).ok}

MatchStarts(s, re, from) == StartsWithFirst(s, re, from, FirstOf(re))

\* the match of re that starts at p
MatchAt(s, re, p, m) == [m EXCEPT !.start = p]

\* the leftmost of the matches that start in starts
Leftmost(s, re, starts) ==
    IF starts = {} THEN Fail
    ELSE MatchAt(s, re, Min(starts), M(s, re, Min(starts), NoCaps))

\* RegExp.prototype.exec from index `from`: the leftmost match
Exec(s, re, from) == Leftmost(s, re, MatchStarts(s, re, from))

\* RegExp.prototype.test / String.prototype.match without the g flag
Test(s, re) == MatchStarts(s, re, 1) # {}

\* the text of capture group g of match m ("" for a group that did not take part)
Cap(s, m, g) == SubSeq(s, m.caps[g][1], m.caps[g][2] - 1)

\* the whole matched text
Matched(s, m) == SubSeq(s, m.start, m.end - 1)

RECURSIVE Walk(_, _, _, _)
\* the match m, then the matches after it
WalkOn(s, re, starts, m) ==
    <<m>> \o Walk(s, re, starts, IF m.end > m.start THEN m.end ELSE m.start + 1)

\* the successive matches of a g-flag pattern, as replace and match visit them:
\* each search resumes where the last match ended
Walk(s, re, starts, from) ==
    IF \A p \in starts : p < from THEN <<>>
    ELSE WalkOn(s, re, starts, Leftmost(s, re, {p \in starts : p >= from}))

AllMatches(s, re) == Walk(s, re, MatchStarts(s, re, 1), 1)

\* (s.match(re) || []).length for a g-flag pattern
CountMatches(s, re) == Len(AllMatches(s, re))

RECURSIVE Splice(_, _, _, _, _)
\* s with match ms[k] replaced by reps[k], for k = j..Len(ms); pos: next unread index
Splice(s, ms, reps, j, pos) ==
    IF j > Len(ms) THEN SubSeq(s, pos, Len(s))
    ELSE SubSeq(s, pos, ms[j].start - 1) \o reps[j] \o Splice(s, ms, reps, j + 1, ms[j].end)

(***************************************************************************)
(* String.prototype.replace with a template: the template is a sequence of *)
(* pieces, each a literal text followed by the text of group g (g = 0: no  *)
(* group).                                                                 *)
(***************************************************************************)
Piece(lit, g) == [lit |-> lit, g |-> g]

RECURSIVE Expand(_, _, _)
Expand(tpl, s, m) ==
    IF Len(tpl) = 0 THEN <<>>
    ELSE Head(tpl).lit
           \o (IF Head(tpl).g = 0 THEN <<>> ELSE Cap(s, m, Head(tpl).g))
           \o Expand(Tail(tpl), s, m)

\* s with the matches ms replaced by the expansions of tpl
ReplaceMatches(s, ms, tpl) ==
    IF Len(ms) = 0 THEN s
    ELSE Splice(s, ms, [j \in 1..Len(ms) |-> Expand(tpl, s, ms[j])], 1, 1)

\* s.replace(re, tpl) for a g-flag pattern
ReplaceAll(s, re, tpl) ==
    IF Len(s) = 0 THEN s ELSE ReplaceMatches(s, AllMatches(s, re), tpl)

\* s with the match m replaced by the expansion of tpl
ReplaceMatch(s, m, tpl) ==
    IF ~m.ok THEN s
    ELSE SubSeq(s, 1, m.start - 1) \o Expand(tpl, s, m) \o SubSeq(s, m.end, Len(s))

\* s.replace(re, tpl) for a pattern without the g flag
ReplaceFirst(s, re, tpl) == ReplaceMatch(s, Exec(s, re, 1), tpl)

(***************************************************************************)
(* String.prototype methods used by the source.                            *)
(***************************************************************************)
RECURSIVE TrimStart(_)
TrimStart(s) ==
    IF Len(s) > 0 /\ Head(s) \in SpaceCh THEN TrimStart(Tail(s)) ELSE s

RECURSIVE TrimEnd(_)
TrimEnd(s) ==
    IF Len(s) > 0 /\ s[Len(s)] \in SpaceCh
    THEN TrimEnd(SubSeq(s, 1, Len(s) - 1)) ELSE s

Trim(s) == TrimEnd(TrimStart(s))

StartsWith(s, pre) == Len(pre) <= Len(s) /\ SubSeq(s, 1, Len(pre)) = pre

EndsWith(s, suf) ==
    Len(suf) <= Len(s) /\ SubSeq(s, Len(s) - Len(suf) + 1, Len(s)) = suf

Includes(s, sub) ==
    \E p \in 1..(Len(s) - Len(sub) + 1) : SubSeq(s, p, p + Len(sub) - 1) = sub

ToLowerCase(s) == [i \in 1..Len(s) |-> LowerOf(s[i])]

RECURSIVE Repeat(_, _)
\* String.prototype.repeat for a count >= 0 (a negative count throws RangeError)
Repeat(str, n) == IF n <= 0 THEN <<>> ELSE str \o Repeat(str, n - 1)

\* s.split(sep) for a one-character separator
Split(s, sep) ==
    LET at == {p \in 1..Len(s) : s[p] = sep}
        \* the position of the k-th separator; 0 for k = 0, Len(s) + 1 past the last
        pos(k) == IF k = 0 THEN 0
                  ELSE IF k > Cardinality(at) THEN Len(s) + 1
                  ELSE CHOOSE p \in at : Cardinality({q \in at : q < p}) = k - 1
    IN  [k \in 1..(Cardinality(at) + 1) |-> SubSeq(s, pos(k - 1) + 1, pos(k) - 1)]

\* s.split('\n')
SplitNL(s) == Split(s, "\n")

RECURSIVE JoinNL(_)
\* lines.join('\n')
JoinNL(lines) ==
    IF Len(lines) = 0 THEN <<>>
    ELSE IF Len(lines) = 1 THEN lines[1]
    ELSE lines[1] \o <<"\n">> \o JoinNL(Tail(lines))

(***************************************************************************)
(* AdvancedTranspiler._transpileExpression: the chain of textual           *)
(* substitutions, in the order of the source.                              *)
(***************************************************************************)
\* /(\w+)\.r(\d+)\((\d+)\)\.(\w+)/g -> `${obj}.elements.r${num}[${idx}].${prop}`
ReFormRadio ==
    Grp(1, <<Plus(WordCh)>>) \o Lit(<<".","r">>) \o Grp(2, <<Plus(Digit)>>)
      \o Lit(<<"(">>) \o Grp(3, <<Plus(Digit)>>) \o Lit(<<")",".">>)
      \o Grp(4, <<Plus(WordCh)>>)

TplFormRadio ==
    <<Piece(<<>>, 1), Piece(<<".","e","l","e","m","e","n","t","s",".","r">>, 2), Piece(<<"[">>, 3), Piece(<<"]",".">>, 4)>>

\* new RegExp(`\\b${arrayName}\\((\\d+)\\)`, 'g') -> `${arrayName}[$1]`
ReArrayDigits(arrayName) ==
    <<WordB>> \o Lit(arrayName) \o Lit(<<"(">>) \o Grp(1, <<Plus(Digit)>>) \o Lit(<<")">>)

TplArray(arrayName) == <<Piece(arrayName \o <<"[">>, 1), Piece(<<"]">>, 0)>>

\* /\bk\.(\w+)\((\d+)\)/g -> 'k.elements.$1[$2]'
ReFormElement ==
    <<WordB>> \o Lit(<<"k",".">>) \o Grp(1, <<Plus(WordCh)>>) \o Lit(<<"(">>)
      \o Grp(2, <<Plus(Digit)>>) \o Lit(<<")">>)

TplFormElement == <<Piece(<<"k",".","e","l","e","m","e","n","t","s",".">>, 1), Piece(<<"[">>, 2), Piece(<<"]">>, 0)>>

\* /\s*OP\s*/gi for a comparison operator OP
ReSpacedOp(op) == <<Star(SpaceCh)>> \o Lit(op) \o <<Star(SpaceCh)>>

\* /\s+WORD\s+/gi for a logical operator word
ReSpacedWord(word) == <<Plus(SpaceCh)>> \o LitI(word) \o <<Plus(SpaceCh)>>

\* /\bnot\s+/gi
ReNot == <<WordB>> \o LitI(<<"n","o","t">>) \o <<Plus(SpaceCh)>>

\* /\bNAME\s*\(/gi for a built-in function NAME
ReBuiltin(name) == <<WordB>> \o LitI(name) \o <<Star(SpaceCh)>> \o Lit(<<"(">>)

\* /\bchr\s*\((\d+)\)/gi -> 'String.fromCharCode($1)'
ReChr ==
    <<WordB>> \o LitI(<<"c","h","r">>) \o <<Star(SpaceCh)>> \o Lit(<<"(">>)
      \o Grp(1, <<Plus(Digit)>>) \o Lit(<<")">>)

\* /\s*=\s*true\b/gi and /\s*=\s*false\b/gi
ReEqualsWord(word) ==
    <<Star(SpaceCh)>> \o Lit(<<"=">>) \o <<Star(SpaceCh)>> \o LitI(word) \o <<WordB>>

\* /^[^=]*=[^=]/
ReHasSingleEquals == <<Bol, NotStar({"="})>> \o Lit(<<"=">>) \o <<NotOne({"="})>>

\* /([^<>=!])=([^=])/g -> '$1===$2'
ReLoneEquals ==
    Grp(1, <<NotOne({"<", ">", "=", "!"})>>) \o Lit(<<"=">>) \o Grp(2, <<NotOne({"="})>>)

TplStrictEquals == <<Piece(<<>>, 1), Piece(<<"=","=","=">>, 2)>>

\* /([^&])\s*&\s*([^&])/g -> '$1 + $2'
ReConcat ==
    Grp(1, <<NotOne({"&"})>>) \o <<Star(SpaceCh)>> \o Lit(<<"&">>) \o <<Star(SpaceCh)>>
      \o Grp(2, <<NotOne({"&"})>>)

TplConcat == <<Piece(<<>>, 1), Piece(<<" ","+"," ">>, 2)>>

\* /createobject\s*\(\s*["']scripting\.filesystemobject["']\s*\)/gi
ReCreateFso ==
    LitI(<<"c","r","e","a","t","e","o","b","j","e","c","t">>) \o <<Star(SpaceCh)>> \o Lit(<<"(">>) \o <<Star(SpaceCh)>>
      \o <<One({"\"", "'"})>> \o LitI(<<"s","c","r","i","p","t","i","n","g",".","f","i","l","e","s","y","s","t","e","m","o","b","j","e","c","t">>)
      \o <<One({"\"", "'"})>> \o <<Star(SpaceCh)>> \o Lit(<<")">>)

\* /document\.write\s+/gi
ReDocWrite == LitI(<<"d","o","c","u","m","e","n","t",".","w","r","i","t","e">>) \o <<Plus(SpaceCh)>>

\* /document\.write\([^)]*$/
ReDocWriteOpen == Lit(<<"d","o","c","u","m","e","n","t",".","w","r","i","t","e","(">>) \o <<NotStar({")"}), Eol>>

Const(text) == <<Piece(text, 0)>>

\* result = result.replace(re, tpl); guard: the pattern of the enclosing
\* if (result.match(guard)), <<>> when the replace is unconditional
Rule(re, tpl, guard) == [re |-> re, tpl |-> tpl, guard |-> guard]

Always == <<>>

\* the replacements of lines 359-423, in the order of the source
ExprRules(arrays) ==
    <<Rule(ReFormRadio, TplFormRadio, Always)>>
      \o [i \in 1..Len(arrays) |->
            Rule(ReArrayDigits(arrays[i]), TplArray(arrays[i]), Always)]
      \o <<Rule(ReFormElement, TplFormElement, Always),
           Rule(ReSpacedOp(<<"=",">">>), Const(<<" ",">","="," ">>), Always),
           Rule(ReSpacedOp(<<"=","<">>), Const(<<" ","<","="," ">>), Always),
           Rule(ReSpacedOp(<<"<",">">>), Const(<<" ","!","=","="," ">>), Always),
           Rule(ReNot, Const(<<"!">>), Always),
           Rule(ReSpacedWord(<<"a","n","d">>), Const(<<" ","&","&"," ">>), Always),
           Rule(ReSpacedWord(<<"o","r">>), Const(<<" ","|","|"," ">>), Always),
           Rule(ReSpacedWord(<<"x","o","r">>), Const(<<" ","^"," ">>), Always),
           Rule(ReSpacedWord(<<"m","o","d">>), Const(<<" ","%"," ">>), Always),
           Rule(ReChr, <<Piece(<<"S","t","r","i","n","g",".","f","r","o","m","C","h","a","r","C","o","d","e","(">>, 1), Piece(<<")">>, 0)>>, Always),
           Rule(ReBuiltin(<<"u","c","a","s","e">>), Const(<<".","t","o","U","p","p","e","r","C","a","s","e","(">>), Always),
           Rule(ReBuiltin(<<"l","c","a","s","e">>), Const(<<".","t","o","L","o","w","e","r","C","a","s","e","(">>), Always),
           Rule(ReBuiltin(<<"l","e","n">>), Const(<<".","l","e","n","g","t","h"," ">>), Always),
           Rule(ReBuiltin(<<"t","r","i","m">>), Const(<<".","t","r","i","m","(">>), Always),
           Rule(ReBuiltin(<<"i","s","e","m","p","t","y">>), Const(<<"(","t","y","p","e","o","f"," ">>), Always),
           Rule(ReBuiltin(<<"i","s","n","u","l","l">>), Const(<<"(">>), Always),
           Rule(ReBuiltin(<<"i","s","n","u","m","e","r","i","c">>), Const(<<"!","i","s","N","a","N","(">>), Always),
           Rule(ReBuiltin(<<"i","s","a","r","r","a","y">>), Const(<<"A","r","r","a","y",".","i","s","A","r","r","a","y","(">>), Always),
           Rule(ReBuiltin(<<"a","b","s">>), Const(<<"M","a","t","h",".","a","b","s","(">>), Always),
           Rule(ReBuiltin(<<"r","o","u","n","d">>), Const(<<"M","a","t","h",".","r","o","u","n","d","(">>), Always),
           Rule(ReBuiltin(<<"i","n","t">>), Const(<<"M","a","t","h",".","f","l","o","o","r","(">>), Always),
           Rule(ReEqualsWord(<<"t","r","u","e">>), Const(<<" ","=","=","="," ","t","r","u","e">>), Always),
           Rule(ReEqualsWord(<<"f","a","l","s","e">>), Const(<<" ","=","=","="," ","f","a","l","s","e">>), Always),
           Rule(ReLoneEquals, TplStrictEquals, ReHasSingleEquals),
           Rule(ReConcat, TplConcat, Always),
           Rule(ReCreateFso, Const(<<"/","*"," ","F","i","l","e","S","y","s","t","e","m","O","b","j","e","c","t"," ","-"," ","u","s","e"," ","B","l","o","b"," ","A","P","I"," ","*","/"," ","n","u","l","l">>), Always),
           Rule(ReDocWrite, Const(<<"d","o","c","u","m","e","n","t",".","w","r","i","t","e","(">>), Always)>>

ApplyRule(result, rule) ==
    IF Len(rule.guard) > 0 /\ ~Test(result, rule.guard) THEN result
    ELSE ReplaceAll(result, rule.re, rule.tpl)

RECURSIVE ApplyRules(_, _, _)
\* the rules from the i-th on, applied to result (no pattern matches in an empty text)
ApplyRules(result, rules, i) ==
    IF Len(result) = 0 \/ i > Len(rules) THEN result
    ELSE ApplyRules(ApplyRule(result, rules[i]), rules, i + 1)

\* lines 424-426
CloseDocWrite(result) ==
    IF Test(result, ReDocWriteOpen) THEN result \o <<")">> ELSE result

\* _transpileExpression(expr) with this.knownArrays = arrays
TranspileExpression(expr, arrays) ==
    IF Len(expr) = 0 THEN <<>>
    ELSE CloseDocWrite(ApplyRules(Trim(expr), ExprRules(arrays), 1))

\* lines 428-431: the patterns this expression adds to this.unknownTokens
UnknownTokensOf(result) ==
    IF Includes(result, <<"c","r","e","a","t","e","o","b","j","e","c","t">>) /\ ~Includes(result, <<"F","i","l","e","S","y","s","t","e","m","O","b","j","e","c","t">>)
    THEN <<<<"C","r","e","a","t","e","O","b","j","e","c","t",":"," ">> \o result>>
    ELSE <<>>

(***************************************************************************)
(* parseInt and number-to-text conversion (template literals).             *)
(***************************************************************************)
DigitSeq == <<"0","1","2","3","4","5","6","7","8","9">>

DigitVal(c) == (CHOOSE i \in DOMAIN DigitSeq : DigitSeq[i] = c) - 1

RECURSIVE ParseIntAcc(_, _)
ParseIntAcc(s, acc) ==
    IF Len(s) = 0 THEN acc
    ELSE ParseIntAcc(Tail(s), acc * 10 + DigitVal(Head(s)))

\* parseInt(s) for a text of digits
ParseInt(s) == ParseIntAcc(s, 0)

RECURSIVE NumToStr(_)
\* `${n}` for an integer n >= 0
NumToStr(n) ==
    IF n < 10 THEN <<DigitSeq[n + 1]>>
    ELSE NumToStr(n \div 10) \o <<DigitSeq[(n % 10) + 1]>>

(***************************************************************************)
(* AdvancedVBScriptParser._tokenize                                        *)
(***************************************************************************)
Token(type, value, line, originalLine) ==
    [type |-> type, value |-> value, line |-> line, originalLine |-> originalLine,
     condition |-> <<>>, variable |-> <<>>, start |-> <<>>, end |-> <<>>,
     name |-> <<>>, isArray |-> FALSE, arraySize |-> -1,
     functionType |-> <<>>, parameters |-> <<>>]

\* (function|sub)
ReFunctionOrSub == <<Alt(LitI(<<"f","u","n","c","t","i","o","n">>), LitI(<<"s","u","b">>))>>

\* /^(function|sub)\s+(\w+)\s*\(/i
ReFunctionStartTest ==
    <<Bol>> \o Grp(1, ReFunctionOrSub) \o <<Plus(SpaceCh)>> \o Grp(2, <<Plus(WordCh)>>)
      \o <<Star(SpaceCh)>> \o Lit(<<"(">>)

\* /^(function|sub)\s+(\w+)\s*\((.*?)\)/i
ReFunctionStart ==
    ReFunctionStartTest \o Grp(3, <<DotStarLazy>>) \o Lit(<<")">>)

\* /^end\s+(function|sub)/i
ReFunctionEnd ==
    <<Bol>> \o LitI(<<"e","n","d">>) \o <<Plus(SpaceCh)>> \o Grp(1, ReFunctionOrSub)

\* /^dim\s+/i
ReDimTest == <<Bol>> \o LitI(<<"d","i","m">>) \o <<Plus(SpaceCh)>>

\* /^dim\s+(\w+)(?:\((\d+)\))?/i
ReDim ==
    ReDimTest \o Grp(1, <<Plus(WordCh)>>)
      \o <<Opt(Lit(<<"(">>) \o Grp(2, <<Plus(Digit)>>) \o Lit(<<")">>))>>

\* /^if\s+.*\s+then/i
ReIfTest ==
    <<Bol>> \o LitI(<<"i","f">>) \o <<Plus(SpaceCh), DotStar, Plus(SpaceCh)>> \o LitI(<<"t","h","e","n">>)

\* /^if\s+(.*?)\s+then\s*(.*)$/i
ReIf ==
    <<Bol>> \o LitI(<<"i","f">>) \o <<Plus(SpaceCh)>> \o Grp(1, <<DotStarLazy>>)
      \o <<Plus(SpaceCh)>> \o LitI(<<"t","h","e","n">>) \o <<Star(SpaceCh)>>
      \o Grp(2, <<DotStar>>) \o <<Eol>>

\* /^for\s+/i
ReForTest == <<Bol>> \o LitI(<<"f","o","r">>) \o <<Plus(SpaceCh)>>

\* /^for\s+(\w+)\s*=\s*(\d+)\s+to\s+(\d+)/i
ReFor ==
    ReForTest \o Grp(1, <<Plus(WordCh)>>) \o <<Star(SpaceCh)>> \o Lit(<<"=">>)
      \o <<Star(SpaceCh)>> \o Grp(2, <<Plus(Digit)>>) \o <<Plus(SpaceCh)>>
      \o LitI(<<"t","o">>) \o <<Plus(SpaceCh)>> \o Grp(3, <<Plus(Digit)>>)

RECURSIVE TrimNonEmpty(_)
\* parts.map(p => p.trim()).filter(p => p)
TrimNonEmpty(parts) ==
    IF Len(parts) = 0 THEN <<>>
    ELSE (IF Len(Trim(Head(parts))) = 0 THEN <<>> ELSE <<Trim(Head(parts))>>)
           \o TrimNonEmpty(Tail(parts))

\* the tokens one source line adds to this.tokens (none or one); a THROW token
\* stands for the TypeError of reading match[...] from a null match

\* lines 66-74
FunctionStartToken(line, lineNumber, trimmed, match) ==
    IF ~match.ok THEN <<Token("THROW", <<>>, lineNumber, line)>>
    ELSE <<[Token("FUNCTION_START", <<>>, lineNumber, line) EXCEPT
              !.functionType = ToLowerCase(Cap(trimmed, match, 1)),
              !.name = Cap(trimmed, match, 2),
              !.parameters = TrimNonEmpty(Split(Cap(trimmed, match, 3), ","))]>>

\* lines 82-92
DimToken(line, lineNumber, trimmed, match) ==
    IF ~match.ok THEN <<>>
    ELSE <<[Token("VARIABLE_DECLARATION", <<>>, lineNumber, line) EXCEPT
              !.name = Cap(trimmed, match, 1),
              !.isArray = Len(Cap(trimmed, match, 2)) > 0,
              !.arraySize = IF Len(Cap(trimmed, match, 2)) > 0
                            THEN ParseInt(Cap(trimmed, match, 2)) ELSE -1]>>

\* lines 95-114
IfToken(line, lineNumber, trimmed, ifMatch) ==
    IF ifMatch.ok /\ Len(Trim(Cap(trimmed, ifMatch, 2))) > 0
    THEN <<Token("STATEMENT", trimmed, lineNumber, line)>>
    ELSE IF ~ifMatch.ok THEN <<Token("THROW", <<>>, lineNumber, line)>>
    ELSE <<[Token("IF_STATEMENT", <<>>, lineNumber, line) EXCEPT
              !.condition = Cap(trimmed, ifMatch, 1)]>>

\* lines 116-126
ForToken(line, lineNumber, trimmed, match) ==
    IF ~match.ok THEN <<>>
    ELSE <<[Token("FOR_LOOP", <<>>, lineNumber, line) EXCEPT
              !.variable = Cap(trimmed, match, 1),
              !.start = Cap(trimmed, match, 2),
              !.end = Cap(trimmed, match, 3)]>>

\* lines 58-135: the branches on the trimmed line
TokensOfTrimmed(line, lineNumber, trimmed) ==
    IF Len(trimmed) = 0 \/ StartsWith(trimmed, <<"'">>)
    THEN <<Token("COMMENT", line, lineNumber, <<>>)>>
    ELSE IF Test(trimmed, ReFunctionStartTest)
    THEN FunctionStartToken(line, lineNumber, trimmed, Exec(trimmed, ReFunctionStart, 1))
    ELSE IF Test(trimmed, ReFunctionEnd)
    THEN <<Token("FUNCTION_END", <<>>, lineNumber, line)>>
    ELSE IF Test(trimmed, ReDimTest)
    THEN DimToken(line, lineNumber, trimmed, Exec(trimmed, ReDim, 1))
    ELSE IF Test(trimmed, ReIfTest)
    THEN IfToken(line, lineNumber, trimmed, Exec(trimmed, ReIf, 1))
    ELSE IF Test(trimmed, ReForTest)
    THEN ForToken(line, lineNumber, trimmed, Exec(trimmed, ReFor, 1))
    ELSE <<Token("STATEMENT", trimmed, lineNumber, line)>>

TokensOfLine(line, lineNumber) == TokensOfTrimmed(line, lineNumber, Trim(line))

RECURSIVE TokenizeFrom(_, _)
\* the loop of _tokenize over this.code.split('\n'), from line lineNumber on
TokenizeFrom(lines, lineNumber) ==
    IF lineNumber > Len(lines) THEN <<>>
    ELSE TokensOfLine(lines[lineNumber], lineNumber)
           \o TokenizeFrom(lines, lineNumber + 1)

Tokenize(code) == TokenizeFrom(SplitNL(code), 1)

\* the tokenizer read a group of a null match (TypeError)
TokenizeThrows(tokens) == \E i \in DOMAIN tokens : tokens[i].type = "THROW"

(***************************************************************************)
(* AdvancedVBScriptParser._buildAST and _extractFunctions                  *)
(***************************************************************************)
\* new RegExp(`^${name}\\s*=\\s*(.+)$`, 'i')
ReReturnAssign(name) ==
    <<Bol>> \o LitI(name) \o <<Star(SpaceCh)>> \o Lit(<<"=">>) \o <<Star(SpaceCh)>>
      \o Grp(1, <<DotPlus>>) \o <<Eol>>

FunctionNode(token) ==
    [type |-> "FUNCTION", functionType |-> token.functionType, name |-> token.name,
     parameters |-> token.parameters, body |-> <<>>, startLine |-> token.line,
     endLine |-> 0, localVariables |-> <<>>, returnStatements |-> <<>>]

VarDecl(token) ==
    [name |-> token.name, isArray |-> token.isArray, arraySize |-> token.arraySize]

\* lines 183-192: the return statements of node with the statement token
\* (match: its match of the return pattern)
WithReturn(node, token, match) ==
    IF token.type = "STATEMENT" /\ node.functionType = <<"f","u","n","c","t","i","o","n">> /\ match.ok
    THEN Append(node.returnStatements,
                [value |-> Cap(token.value, match, 1), line |-> token.line])
    ELSE node.returnStatements

\* the function node on top of the stack after a body token was added to it
AddToBody(node, token) ==
    [node EXCEPT
       !.body = Append(@, token),
       !.localVariables = IF token.type = "VARIABLE_DECLARATION"
                          THEN Append(@, VarDecl(token)) ELSE @,
       !.returnStatements =
          WithReturn(node, token, Exec(token.value, ReReturnAssign(node.name), 1))]

\* one iteration of the loop of _buildAST; st.stack's last element is currentNode
ASTStep(st, token) ==
    LET depth == Len(st.stack)
    IN  IF token.type = "FUNCTION_START"
        THEN [st EXCEPT !.stack = Append(@, FunctionNode(token))]
        ELSE IF token.type = "FUNCTION_END"
        THEN IF depth > 0
             THEN [st EXCEPT
                     !.ast = Append(@, [st.stack[depth] EXCEPT !.endLine = token.line]),
                     !.stack = SubSeq(@, 1, depth - 1)]
             ELSE st
        ELSE IF depth > 0
        THEN [st EXCEPT !.stack[depth] = AddToBody(@, token)]
        ELSE [st EXCEPT
                !.ast = Append(@, token),
                !.globalVariables =
                   IF token.type = "VARIABLE_DECLARATION"
                   THEN Append(@, VarDecl(token)) ELSE @]

RECURSIVE BuildASTFrom(_, _, _)
BuildASTFrom(tokens, i, st) ==
    IF i > Len(tokens) THEN st
    ELSE BuildASTFrom(tokens, i + 1, ASTStep(st, tokens[i]))

BuildAST(tokens) ==
    BuildASTFrom(tokens, 1, [stack |-> <<>>, ast |-> <<>>, globalVariables |-> <<>>])

RECURSIVE ExtractFunctions(_)
\* this.ast.filter(node => node.type === 'FUNCTION').map(...)
ExtractFunctions(ast) ==
    IF Len(ast) = 0 THEN <<>>
    ELSE (IF Head(ast).type = "FUNCTION"
          THEN <<[name |-> Head(ast).name, type |-> Head(ast).functionType,
                  parameters |-> Head(ast).parameters,
                  localVariables |-> Head(ast).localVariables,
                  returnStatements |-> Head(ast).returnStatements,
                  startLine |-> Head(ast).startLine, endLine |-> Head(ast).endLine,
                  bodyTokens |-> Head(ast).body]>>
          ELSE <<>>)
           \o ExtractFunctions(Tail(ast))

\* what parse returns after _buildAST: { functions, globalVariables }
ParsedOf(st) ==
    [functions |-> ExtractFunctions(st.ast), globalVariables |-> st.globalVariables]

\* AdvancedVBScriptParser.parse
Parse(code) == ParsedOf(BuildAST(Tokenize(code)))

(***************************************************************************)
(* AdvancedTranspiler._buildKnowledgeBase: this.knownArrays and            *)
(* this.knownFunctions are Sets, kept here in insertion order.             *)
(***************************************************************************)
SetAdd(seq, x) == IF \E i \in DOMAIN seq : seq[i] = x THEN seq ELSE Append(seq, x)

RECURSIVE AddArrays(_, _)
\* for (const v of decls) if (v.isArray) this.knownArrays.add(v.name)
AddArrays(known, decls) ==
    IF Len(decls) = 0 THEN known
    ELSE AddArrays(IF Head(decls).isArray THEN SetAdd(known, Head(decls).name) ELSE known,
                   Tail(decls))

RECURSIVE AddFunctions(_, _)
\* for (const func of parsed.functions) { knownFunctions.add; local arrays }
AddFunctions(kb, functions) ==
    IF Len(functions) = 0 THEN kb
    ELSE AddFunctions(
           [knownArrays |-> AddArrays(kb.knownArrays, Head(functions).localVariables),
            knownFunctions |-> SetAdd(kb.knownFunctions, Head(functions).name)],
           Tail(functions))

BuildKnowledgeBase(kb, parsed) ==
    AddFunctions([kb EXCEPT !.knownArrays = AddArrays(@, parsed.globalVariables)],
                 parsed.functions)

(***************************************************************************)
(* AdvancedTranspiler._identifyTokenType and _transpileStatement.          *)
(* A transpiled text comes with the patterns its expressions add to        *)
(* this.unknownTokens: [text, unknown].                                    *)
(***************************************************************************)
\* s.indexOf(sub), 1-based; 0 when absent
IndexOf(s, sub) ==
    IF Includes(s, sub)
    THEN CHOOSE p \in 1..(Len(s) - Len(sub) + 1) :
           /\ SubSeq(s, p, p + Len(sub) - 1) = sub
           /\ \A q \in 1..(p - 1) : SubSeq(s, q, q + Len(sub) - 1) # sub
    ELSE 0

IdentifyTokenType(token) ==
    IF Len(token.value) = 0 THEN "UNKNOWN"
    ELSE LET value == ToLowerCase(Trim(token.value))
         IN  IF StartsWith(value, <<"d","i","m"," ">>) THEN "DIM"
             ELSE IF StartsWith(value, <<"s","e","t"," ">>) THEN "SET"
             ELSE IF StartsWith(value, <<"i","f"," ">>) THEN "IF"
             ELSE IF StartsWith(value, <<"e","l","s","e","i","f"," ">>) THEN "ELSEIF"
             ELSE IF value = <<"e","l","s","e">> THEN "ELSE"
             ELSE IF value = <<"e","n","d"," ","i","f">> THEN "END_IF"
             ELSE IF StartsWith(value, <<"f","o","r"," ">>) THEN "FOR"
             ELSE IF value = <<"n","e","x","t">> THEN "NEXT"
             ELSE IF StartsWith(value, <<"d","o"," ">>) THEN "DO"
             ELSE IF value = <<"l","o","o","p">> THEN "LOOP"
             ELSE IF StartsWith(value, <<"s","e","l","e","c","t"," ">>) THEN "SELECT"
             ELSE IF StartsWith(value, <<"c","a","s","e"," ">>) THEN "CASE"
             ELSE IF value = <<"e","n","d"," ","s","e","l","e","c","t">> THEN "END_SELECT"
             ELSE IF StartsWith(value, <<"e","x","i","t"," ">>) THEN "EXIT"
             ELSE IF Includes(value, <<"m","s","g","b","o","x">>) THEN "MSGBOX"
             ELSE IF Includes(value, <<"i","n","p","u","t","b","o","x">>) THEN "INPUTBOX"
             ELSE IF Includes(value, <<"c","r","e","a","t","e","o","b","j","e","c","t">>) THEN "CREATEOBJECT"
             ELSE IF Includes(value, <<"d","o","c","u","m","e","n","t",".","w","r","i","t","e">>) THEN "DOCUMENT_WRITE"
             ELSE "STATEMENT"

\* a transpiled text with the patterns it adds to this.unknownTokens
WithUnknown(r) == [text |-> r, unknown |-> UnknownTokensOf(r)]

\* _transpileExpression with its side effect on this.unknownTokens
Expr(expr, arrays) == WithUnknown(TranspileExpression(expr, arrays))

\* /^msgbox[\s"]/i
ReMsgbox == <<Bol>> \o LitI(<<"m","s","g","b","o","x">>) \o <<One(SpaceCh \cup {"\""})>>

\* /(\w+)\s*=\s*inputbox\s*\((.+?)\)/i
ReInputbox ==
    Grp(1, <<Plus(WordCh)>>) \o <<Star(SpaceCh)>> \o Lit(<<"=">>) \o <<Star(SpaceCh)>>
      \o LitI(<<"i","n","p","u","t","b","o","x">>) \o <<Star(SpaceCh)>> \o Lit(<<"(">>) \o Grp(2, <<DotPlusLazy>>)
      \o Lit(<<")">>)

\* /document\.write\s+(.+)$/i
ReDocWriteStmt ==
    LitI(<<"d","o","c","u","m","e","n","t",".","w","r","i","t","e">>) \o <<Plus(SpaceCh)>> \o Grp(1, <<DotPlus>>) \o <<Eol>>

\* /^(\w+(?:\([^)]+\))?)\s*=\s*(.+)$/
ReAssign ==
    <<Bol>>
      \o Grp(1, <<Plus(WordCh), Opt(Lit(<<"(">>) \o <<NotPlus({")"})>> \o Lit(<<")">>))>>)
      \o <<Star(SpaceCh)>> \o Lit(<<"=">>) \o <<Star(SpaceCh)>>
      \o Grp(2, <<DotPlus>>) \o <<Eol>>

\* `${pre}${e}${post}` for a transpiled expression e
Wrap(pre, e, post) == [text |-> pre \o e.text \o post, unknown |-> e.unknown]

\* lines 311-315: the text after 'msgbox', without enclosing parentheses
MsgboxMessage(message) ==
    IF StartsWith(message, <<"(">>) /\ EndsWith(message, <<")">>)
    THEN Trim(SubSeq(message, 2, Len(message) - 1))
    ELSE message

\* lines 306-320: msgbox
StatementMsgbox(statement, arrays) ==
    Wrap(<<"a","l","e","r","t","(">>,
         Expr(MsgboxMessage(Trim(SubSeq(statement,
                                        IndexOf(ToLowerCase(statement), <<"m","s","g","b","o","x">>) + 6,
                                        Len(statement)))),
              arrays),
         <<")",";">>)

\* line 344
Assignment(left, right) ==
    [text |-> left.text \o <<" ","="," ">> \o right.text \o <<";">>,
     unknown |-> left.unknown \o right.unknown]

\* lines 348-349
OtherStatement(e) ==
    [text |-> IF EndsWith(e.text, <<";">>) THEN e.text ELSE e.text \o <<";">>,
     unknown |-> e.unknown]

\* lines 339-349: assignment (assignMatch) and other statements
StatementAssign(statement, arrays, assignMatch) ==
    IF assignMatch.ok
    THEN Assignment(Expr(Cap(statement, assignMatch, 1), arrays),
                    Expr(Cap(statement, assignMatch, 2), arrays))
    ELSE OtherStatement(Expr(statement, arrays))

\* lines 331-337: document.write (match), then the rest
StatementDocWrite(statement, tokenType, arrays, match) ==
    IF tokenType = "DOCUMENT_WRITE" /\ match.ok
    THEN Wrap(<<"d","o","c","u","m","e","n","t",".","w","r","i","t","e","(">>, Expr(Cap(statement, match, 1), arrays), <<")",";">>)
    ELSE StatementAssign(statement, arrays, Exec(statement, ReAssign, 1))

\* lines 322-329: inputbox (match), then the rest
StatementInputbox(statement, tokenType, arrays, match) ==
    IF tokenType = "INPUTBOX" /\ match.ok
    THEN Wrap(Cap(statement, match, 1) \o <<" ","="," ","p","r","o","m","p","t","(">>,
              Expr(Cap(statement, match, 2), arrays), <<")",";">>)
    ELSE StatementDocWrite(statement, tokenType, arrays,
                           Exec(statement, ReDocWriteStmt, 1))

\* lines 299-320: the return statement (returnMatch) and msgbox, then the rest
StatementReturn(statement, tokenType, arrays, returnMatch) ==
    IF returnMatch.ok
    THEN Wrap(<<"r","e","t","u","r","n"," ">>, Expr(Cap(statement, returnMatch, 1), arrays), <<";">>)
    ELSE IF tokenType = "MSGBOX" \/ Test(statement, ReMsgbox)
    THEN StatementMsgbox(statement, arrays)
    ELSE StatementInputbox(statement, tokenType, arrays, Exec(statement, ReInputbox, 1))

\* _transpileStatement(statement, func, tokenType) with this.knownArrays = arrays
TranspileStatement(statement, func, tokenType, arrays) ==
    IF Len(Trim(statement)) = 0 THEN [text |-> <<>>, unknown |-> <<>>]
    ELSE StatementReturn(statement, tokenType, arrays,
                         Exec(statement, ReReturnAssign(func.name), 1))

(***************************************************************************)
(* AdvancedTranspiler._transpileBody: the locals of the loop are the       *)
(* record b = [lines, indentLevel, ifStack, i, unknown, threw].            *)
(***************************************************************************)
\* /^end\s+if$/i
ReEndIf == <<Bol>> \o LitI(<<"e","n","d">>) \o <<Plus(SpaceCh)>> \o LitI(<<"i","f">>) \o <<Eol>>

\* /^next$/i
ReNext == <<Bol>> \o LitI(<<"n","e","x","t">>) \o <<Eol>>

\* /^else\s+\w+/i
ReElseInlineTest == <<Bol>> \o LitI(<<"e","l","s","e">>) \o <<Plus(SpaceCh), Plus(WordCh)>>

\* /^else\s+(.+)$/i
ReElseInline ==
    <<Bol>> \o LitI(<<"e","l","s","e">>) \o <<Plus(SpaceCh)>> \o Grp(1, <<DotPlus>>) \o <<Eol>>

\* /^else$/i
ReElse == <<Bol>> \o LitI(<<"e","l","s","e">>) \o <<Eol>>

\* /^elseif\s+/i
ReElseIfTest == <<Bol>> \o LitI(<<"e","l","s","e","i","f">>) \o <<Plus(SpaceCh)>>

\* /^elseif\s+(.*?)\s+then$/i
ReElseIf ==
    ReElseIfTest \o Grp(1, <<DotStarLazy>>) \o <<Plus(SpaceCh)>> \o LitI(<<"t","h","e","n">>)
      \o <<Eol>>

\* /^do\s+while/i
ReDoWhileTest == <<Bol>> \o LitI(<<"d","o">>) \o <<Plus(SpaceCh)>> \o LitI(<<"w","h","i","l","e">>)

\* /^do\s+while\s+(.*?)$/i
ReDoWhile == ReDoWhileTest \o <<Plus(SpaceCh)>> \o Grp(1, <<DotStarLazy>>) \o <<Eol>>

\* /^loop$/i
ReLoop == <<Bol>> \o LitI(<<"l","o","o","p">>) \o <<Eol>>

\* /^select\s+case/i
ReSelectTest == <<Bol>> \o LitI(<<"s","e","l","e","c","t">>) \o <<Plus(SpaceCh)>> \o LitI(<<"c","a","s","e">>)

\* /^select\s+case\s+(.*?)$/i
ReSelect == ReSelectTest \o <<Plus(SpaceCh)>> \o Grp(1, <<DotStarLazy>>) \o <<Eol>>

\* /^case\s+/i
ReCaseTest == <<Bol>> \o LitI(<<"c","a","s","e">>) \o <<Plus(SpaceCh)>>

\* /^case\s+else$/i
ReCaseElse == ReCaseTest \o LitI(<<"e","l","s","e">>) \o <<Eol>>

\* /^case\s+(.*?)$/i
ReCase == ReCaseTest \o Grp(1, <<DotStarLazy>>) \o <<Eol>>

\* /^end\s+select$/i
ReEndSelect ==
    <<Bol>> \o LitI(<<"e","n","d">>) \o <<Plus(SpaceCh)>> \o LitI(<<"s","e","l","e","c","t">>) \o <<Eol>>

\* /^exit\s+(function|sub|for|do)$/i
ReExit ==
    <<Bol>> \o LitI(<<"e","x","i","t">>) \o <<Plus(SpaceCh)>>
      \o Grp(1, <<Alt(LitI(<<"f","u","n","c","t","i","o","n">>),
                      <<Alt(LitI(<<"s","u","b">>), <<Alt(LitI(<<"f","o","r">>), LitI(<<"d","o">>))>>)>>)>>)
      \o <<Eol>>

\* lines.push('  '.repeat(indentLevel) + text); repeat throws RangeError for a
\* negative count, which ends _transpileBody and transpile
Push(b, text) ==
    IF b.threw THEN b
    ELSE IF b.indentLevel < 0 THEN [b EXCEPT !.threw = TRUE]
    ELSE [b EXCEPT !.lines = Append(@, Repeat(<<" "," ">>, b.indentLevel) \o text)]

\* indentLevel++ and indentLevel--
Inc(b) == IF b.threw THEN b ELSE [b EXCEPT !.indentLevel = @ + 1]
Dec(b) == IF b.threw THEN b ELSE [b EXCEPT !.indentLevel = @ - 1]

\* if (ifStack.length > 0) ifStack.pop()
PopIf(b) ==
    IF Len(b.ifStack) > 0
    THEN [b EXCEPT !.ifStack = SubSeq(@, 1, Len(@) - 1)]
    ELSE b

\* ifStack.push('if')
PushIf(b) == IF b.threw THEN b ELSE [b EXCEPT !.ifStack = Append(@, "if")]

AddUnknown(b, unknown) == [b EXCEPT !.unknown = @ \o unknown]

\* lines.push(indent + `${pre}${c}${post}`); indentLevel++ for a transpiled c
BlockHeader(b, c, pre, post) ==
    Inc(Push(AddUnknown(b, c.unknown), pre \o c.text \o post))

\* the header of a block whose pattern matched (match); otherwise b
HeaderOf(otherwise, b, v, match, arrays, pre, post) ==
    IF match.ok THEN BlockHeader(b, Expr(Cap(v, match, 1), arrays), pre, post)
    ELSE otherwise

\* lines 189-194: the lines of an inline else with the transpiled statement s
ElseInlineEmit(b, s) ==
    Push(Dec(Push(Inc(Push(Dec(AddUnknown(b, s.unknown)), <<"}"," ","e","l","s","e"," ","{">>)), s.text)),
         <<"}">>)

\* lines 196-203: skip an 'end if' that follows directly
ElseInlineClose(b, tokens) ==
    IF ~b.threw /\ b.i + 1 <= Len(tokens) /\ Test(tokens[b.i + 1].value, ReEndIf)
    THEN PopIf([b EXCEPT !.i = @ + 1])
    ELSE b

\* lines 185-205: else with an inline statement
ElseInlineMatch(b, tokens, func, arrays, match) ==
    IF ~match.ok THEN b
    ELSE ElseInlineClose(
           ElseInlineEmit(b, TranspileStatement(Cap(tokens[b.i].value, match, 1),
                                                func, "STATEMENT", arrays)),
           tokens)

BodyElseInline(b, tokens, func, arrays) ==
    ElseInlineMatch(b, tokens, func, arrays, Exec(tokens[b.i].value, ReElseInline, 1))

\* lines 249-254: exit (match)
BodyExit(b, v, match) ==
    IF ToLowerCase(Cap(v, match, 1)) \in {<<"f","u","n","c","t","i","o","n">>, <<"s","u","b">>}
    THEN Push(b, <<"r","e","t","u","r","n",";">>)
    ELSE Push(b, <<"b","r","e","a","k",";">>)

\* lines 176-258: the control-flow checks on the statement v, then the
\* transpiled statement text
BodyFlow(b, tokens, func, arrays, v, text) ==
    IF Test(v, ReEndIf) THEN Push(Dec(PopIf(b)), <<"}">>)
    ELSE IF Test(v, ReNext) THEN Push(Dec(b), <<"}">>)
    ELSE IF Test(v, ReElseInlineTest) THEN BodyElseInline(b, tokens, func, arrays)
    ELSE IF Test(v, ReElse) THEN Inc(Push(Dec(b), <<"}"," ","e","l","s","e"," ","{">>))
    ELSE IF Test(v, ReElseIfTest)
    THEN HeaderOf(b, Dec(b), v, Exec(v, ReElseIf, 1), arrays, <<"}"," ","e","l","s","e"," ","i","f"," ","(">>, <<")"," ","{">>)
    ELSE IF Test(v, ReDoWhileTest)
    THEN HeaderOf(b, b, v, Exec(v, ReDoWhile, 1), arrays, <<"w","h","i","l","e"," ","(">>, <<")"," ","{">>)
    ELSE IF Test(v, ReLoop) THEN Push(Dec(b), <<"}">>)
    ELSE IF Test(v, ReSelectTest)
    THEN HeaderOf(b, b, v, Exec(v, ReSelect, 1), arrays, <<"s","w","i","t","c","h"," ","(">>, <<")"," ","{">>)
    ELSE IF Test(v, ReCaseTest)
    THEN IF Test(v, ReCaseElse) THEN Inc(Push(b, <<"d","e","f","a","u","l","t",":">>))
         ELSE HeaderOf(Inc(b), b, v, Exec(v, ReCase, 1), arrays, <<"c","a","s","e"," ">>, <<":">>)
    ELSE IF Test(v, ReEndSelect) THEN Push(Dec(b), <<"}">>)
    ELSE IF Test(v, ReExit) THEN BodyExit(b, v, Exec(v, ReExit, 1))
    ELSE IF Len(text) > 0 THEN Push(b, text)
    ELSE b

\* line 173: the statement is transpiled before the checks
BodyTranspiled(b, tokens, func, arrays, statement) ==
    BodyFlow(AddUnknown(b, statement.unknown), tokens, func, arrays,
             tokens[b.i].value, statement.text)

\* lines 172-258: a STATEMENT token
BodyStatement(b, tokens, func, arrays) ==
    BodyTranspiled(b, tokens, func, arrays,
                   TranspileStatement(tokens[b.i].value, func,
                                      IdentifyTokenType(tokens[b.i]), arrays))

\* lines 156-160: a COMMENT token with the trimmed text comment
BodyComment(b, comment) ==
    IF StartsWith(comment, <<"'">>)
    THEN Push(b, <<"/","/">> \o SubSeq(comment, 2, Len(comment)))
    ELSE b

\* lines 168-170: a FOR_LOOP token
BodyFor(b, token) ==
    Inc(Push(b, <<"f","o","r"," ","(","l","e","t"," ">> \o token.variable \o <<" ","="," ">> \o token.start
                  \o <<";"," ">> \o token.variable \o <<" ","<","="," ">> \o token.end
                  \o <<";"," ">> \o token.variable \o <<"+","+",")"," ","{">>))

\* the loop goes on with the next token, unless repeat threw
Advance(b) == IF b.threw THEN b ELSE [b EXCEPT !.i = @ + 1]

\* the body of the for loop of _transpileBody, on the token tokens[b.i]
BodyToken(b, tokens, func, arrays, token) ==
    IF token.type = "COMMENT" THEN BodyComment(b, Trim(token.value))
    ELSE IF token.type = "VARIABLE_DECLARATION" THEN b
    ELSE IF token.type = "IF_STATEMENT"
    THEN PushIf(BlockHeader(b, Expr(token.condition, arrays), <<"i","f"," ","(">>, <<")"," ","{">>))
    ELSE IF token.type = "FOR_LOOP" THEN BodyFor(b, token)
    ELSE IF token.type = "STATEMENT" THEN BodyStatement(b, tokens, func, arrays)
    ELSE b

\* one iteration of the for loop of _transpileBody
BodyStep(b, tokens, func, arrays) ==
    Advance(BodyToken(b, tokens, func, arrays, tokens[b.i]))

\* lines 148-150: the locals when the loop starts
BodyInit ==
    [lines |-> <<>>, indentLevel |-> 1, ifStack |-> <<>>, i |-> 1,
     unknown |-> <<>>, threw |-> FALSE]

(***************************************************************************)
(* AdvancedTranspiler._transpileFunction, TokenHandlers.dim,               *)
(* _transpileGlobalVariables and the text transpile returns.               *)
(***************************************************************************)
RECURSIVE JoinWith(_, _)
\* parts.join(sep)
JoinWith(parts, sep) ==
    IF Len(parts) = 0 THEN <<>>
    ELSE IF Len(parts) = 1 THEN parts[1]
    ELSE parts[1] \o sep \o JoinWith(Tail(parts), sep)

\* TokenHandlers[VBScriptTokenTypes.DIM]
HandlerDim(token) ==
    IF token.isArray
    THEN <<"c","o","n","s","t"," ">> \o token.name \o <<" ","="," ","n","e","w"," ","A","r","r","a","y","(">> \o NumToStr(token.arraySize)
           \o <<" ","+"," ","1",")",";">>
    ELSE <<"l","e","t"," ">> \o token.name \o <<";">>

\* lines 119-126: the declaration line of a local variable
LocalVarLine(localVar) ==
    IF localVar.isArray
    THEN <<" "," ","c","o","n","s","t"," ">> \o localVar.name \o <<" ","="," ","n","e","w"," ","A","r","r","a","y","(">>
           \o NumToStr(localVar.arraySize) \o <<" ","+"," ","1",")",";">>
    ELSE <<" "," ","l","e","t"," ">> \o localVar.name \o <<";">>

\* lines 113-130: the lines before the body
FunctionPreamble(func) ==
    <<<<"f","u","n","c","t","i","o","n"," ">> \o func.name \o <<"(">> \o JoinWith(func.parameters, <<","," ">>) \o <<")"," ","{">>>>
      \o [i \in 1..Len(func.localVariables) |-> LocalVarLine(func.localVariables[i])]
      \o (IF Len(func.localVariables) > 0 THEN << <<>> >> ELSE <<>>)

\* lines 136-144: the lines after the body, and the join
FunctionText(func, bodyLines) ==
    JoinNL(FunctionPreamble(func) \o bodyLines
             \o (IF func.type = <<"f","u","n","c","t","i","o","n">> /\ Len(func.returnStatements) = 0
                 THEN <<<<" "," ","r","e","t","u","r","n"," ","n","u","l","l",";">>>> ELSE <<>>)
             \o <<<<"}">>, <<>> >>)

TranspileGlobalVariables(globalVars) ==
    JoinNL(<<<<"/","/"," ","G","l","o","b","a","l"," ","V","a","r","i","a","b","l","e","s">>>>
             \o [i \in 1..Len(globalVars) |-> HandlerDim(globalVars[i])])

\* new Date().toISOString() at the time of the call (an input of the run)
IsoDate == <<"2","0","2","5","-","0","1","-","0","1","T","0","0",":","0","0",":","0","0",".","0","0","0","Z">>

\* lines 41-52: fullCode
FullCode(globalVars, transpiledFunctions) ==
    JoinNL(<<<<"/","*","*">>,
             <<" ","*"," ","T","r","a","n","s","p","i","l","e","d"," ","J","a","v","a","S","c","r","i","p","t"," ","f","r","o","m"," ","V","B","S","c","r","i","p","t">>,
             <<" ","*"," ","G","e","n","e","r","a","t","e","d"," ","w","i","t","h"," ","c","o","m","p","r","e","h","e","n","s","i","v","e"," ","t","o","k","e","n","-","a","w","a","r","e"," ","t","r","a","n","s","p","i","l","e","r">>,
             <<" ","*"," ","D","a","t","e",":"," ">> \o IsoDate,
             <<" ","*"," ","A","l","l"," ","V","B","S","c","r","i","p","t"," ","t","o","k","e","n","s"," ","h","a","n","d","l","e","d"," ","s","y","s","t","e","m","a","t","i","c","a","l","l","y">>,
             <<" ","*","/">>,
             <<>>,
             globalVars,
             <<>> >> \o transpiledFunctions)

(***************************************************************************)
(* PostProcessor (src/src/logger/Logger.js).                               *)
(* Each pass returns [text, n, warn]: the new text, the amount it adds to  *)
(* its counter of this.fixes, and the warnings it logs.                    *)
(***************************************************************************)
\* const charCodeMap (lines 123-131): the escape sequence of a code, <<>> if none
CharCodeMap(code) ==
    CASE code = 0 -> <<"\\","0">>
      [] code = 9 -> <<"\\","t">>
      [] code = 10 -> <<"\\","n">>
      [] code = 13 -> <<"\\","n">>
      [] code = 34 -> <<"\\","\"">>
      [] code = 39 -> <<"\\","'">>
      [] code = 92 -> <<"\\","\\">>
      [] OTHER -> <<>>

\* /String\.fromCharCode\((\d+)\)/g
ReFromCharCode == Lit(<<"S","t","r","i","n","g",".","f","r","o","m","C","h","a","r","C","o","d","e","(">>) \o Grp(1, <<Plus(Digit)>>) \o Lit(<<")">>)

\* /chr\((\d+)\)/gi
ReChrCall == LitI(<<"c","h","r","(">>) \o Grp(1, <<Plus(Digit)>>) \o Lit(<<")">>)

\* charCodeMap[code] is set, for the code of match m
IsMapped(s, m) == Len(CharCodeMap(ParseInt(Cap(s, m, 1)))) > 0

Quoted(text) == <<"\"">> \o text \o <<"\"">>

\* the callback of lines 134-148
FromCharCodeReplacement(s, m) ==
    IF IsMapped(s, m) THEN Quoted(CharCodeMap(ParseInt(Cap(s, m, 1))))
    ELSE Matched(s, m)

\* the callback of lines 151-160
ChrReplacement(s, m) ==
    IF IsMapped(s, m) THEN Quoted(CharCodeMap(ParseInt(Cap(s, m, 1))))
    ELSE <<"S","t","r","i","n","g",".","f","r","o","m","C","h","a","r","C","o","d","e","(">> \o NumToStr(ParseInt(Cap(s, m, 1))) \o <<")">>

\* how often the callbacks count a fix for the matches ms
MappedCount(s, ms) == Cardinality({j \in 1..Len(ms) : IsMapped(s, ms[j])})

\* lines 134-148, ms: the matches of String.fromCharCode(X)
ConvertFromCharCode(code, ms) ==
    [text |-> Splice(code, ms,
                     [j \in 1..Len(ms) |-> FromCharCodeReplacement(code, ms[j])], 1, 1),
     n |-> MappedCount(code, ms)]

\* lines 151-160, ms: the matches of chr(X) in the result r so far
ConvertChr(r, ms) ==
    [text |-> Splice(r.text, ms,
                     [j \in 1..Len(ms) |-> ChrReplacement(r.text, ms[j])], 1, 1),
     n |-> r.n + MappedCount(r.text, ms),
     warn |-> <<>>]

ConvertChrCalls(r) == ConvertChr(r, AllMatches(r.text, ReChrCall))

ConvertCharacterCodes(code) ==
    ConvertChrCalls(ConvertFromCharCode(code, AllMatches(code, ReFromCharCode)))

\* const arrayNames (lines 172-182)
ArrayNames ==
    <<<<"w">>, <<"r">>, <<"r","a","w","b","r">>, <<"f","r","a","w","b","r">>, <<"a","f","t","e","r","c","o","r">>, <<"a","f","t","e","r","h","c","o","r">>, <<"d","a","b","r">>,
      <<"a","f","t","e","r","d","d","c","o","r">>, <<"a","f","t","e","r","d","c","c","o","r">>, <<"a","f","t","e","r","i","n","p">>, <<"a","f","t","e","r","a","l","l">>, <<"g","g">>, <<"f","o","r","d","c">>,
      <<"o","n","e","b","r">>, <<"t","w","o","b","r">>, <<"t","h","r","e","e","b","r">>, <<"f","o","u","r","b","r">>, <<"f","i","v","e","b","r">>, <<"s","i","x","a","b","r">>, <<"s","i","x","b","b","r">>,
      <<"s","e","v","e","n","b","r">>, <<"e","i","g","h","t","a","b","r">>, <<"e","i","g","h","t","b","b","r">>, <<"s","b","r">>, <<"c","b","r">>, <<"p","b","r">>, <<"a","b","r">>, <<"h","b","r">>,
      <<"n","b","r">>, <<"d","b","r">>, <<"t","b","r">>, <<"y","b","r">>, <<"z","b","r">>, <<"p","p","b","r">>, <<"s","s","b","r">>, <<"c","c","b","r">>,
      <<"d","c","b","r">>, <<"d","d","b","r">>, <<"f","o","n","e","b","r">>, <<"f","t","w","o","b","r">>, <<"f","t","h","r","e","e","b","r">>, <<"f","f","o","u","r","b","r">>, <<"f","f","i","v","e","b","r">>,
      <<"f","s","i","x","a","b","r">>, <<"f","s","i","x","b","b","r">>, <<"f","s","e","v","e","n","b","r">>, <<"f","e","i","g","h","t","a","b","r">>, <<"f","e","i","g","h","t","b","b","r">>, <<"f","s","b","r">>,
      <<"f","c","b","r">>, <<"f","p","b","r">>, <<"f","a","b","r">>, <<"f","h","b","r">>, <<"f","n","b","r">>, <<"f","d","b","r">>, <<"f","t","b","r">>, <<"f","y","b","r">>,
      <<"f","z","b","r">>, <<"f","p","p","b","r">>, <<"f","s","s","b","r">>, <<"f","c","c","b","r">>>>

\* new RegExp(`\\b${arrayName}\\(([^)]+)\\)`, 'g')
ReArrayAny(arrayName) ==
    <<WordB>> \o Lit(arrayName) \o Lit(<<"(">>) \o Grp(1, <<NotPlus({")"})>>) \o Lit(<<")">>)

\* lines 190-196: result is the text after the replace for arrayName
FixArrayName(acc, arrayName, result) ==
    IF result # acc.text
    THEN [text |-> result,
          n |-> acc.n + CountMatches(acc.text, ReArrayAny(arrayName)),
          warn |-> <<>>]
    ELSE acc

RECURSIVE FixArrayNames(_, _, _)
\* the loop of lines 187-197 from the i-th name on (no pattern matches in an
\* empty text)
FixArrayNames(acc, names, i) ==
    IF i > Len(names) \/ Len(acc.text) = 0 THEN acc
    ELSE FixArrayNames(
           FixArrayName(acc, names[i],
                        ReplaceAll(acc.text, ReArrayAny(names[i]), TplArray(names[i]))),
           names, i + 1)

FixArrayAccess(code) ==
    FixArrayNames([text |-> code, n |-> 0, warn |-> <<>>], ArrayNames, 1)

\* /if\s*\(([^)]*[^=!<>])=([^=][^)]*)\)/g
ReIfAssign ==
    Lit(<<"i","f">>) \o <<Star(SpaceCh)>> \o Lit(<<"(">>)
      \o Grp(1, <<NotStar({")"}), NotOne({"=", "!", "<", ">"})>>) \o Lit(<<"=">>)
      \o Grp(2, <<NotOne({"="}), NotStar({")"})>>) \o Lit(<<")">>)

\* /[<>=!]$/ and /^=/
ReEndsWithOp == <<One({"<", ">", "=", "!"}), Eol>>
ReStartsWithEq == <<Bol, One({"="})>>

\* /\.disabled\s*===\s*(true|false)/g
ReDisabled ==
    Lit(<<".","d","i","s","a","b","l","e","d">>) \o <<Star(SpaceCh)>> \o Lit(<<"=","=","=">>) \o <<Star(SpaceCh)>>
      \o Grp(1, <<Alt(Lit(<<"t","r","u","e">>), Lit(<<"f","a","l","s","e">>))>>)

IsIfFix(s, m) == ~Test(Cap(s, m, 1), ReEndsWithOp) /\ ~Test(Cap(s, m, 2), ReStartsWithEq)

\* the callback of lines 212-219
IfAssignReplacement(s, m) ==
    IF IsIfFix(s, m)
    THEN <<"i","f"," ","(">> \o Cap(s, m, 1) \o <<"=","=","=">> \o Cap(s, m, 2) \o <<")">>
    ELSE Matched(s, m)

\* lines 212-219, ms: the matches of the if pattern
FixIfAssign(code, ms) ==
    [text |-> Splice(code, ms,
                     [j \in 1..Len(ms) |-> IfAssignReplacement(code, ms[j])], 1, 1),
     n |-> Cardinality({j \in 1..Len(ms) : IsIfFix(code, ms[j])})]

\* lines 224-227
WithDisabledWarning(r) ==
    [text |-> r.text, n |-> r.n,
     warn |-> IF Test(r.text, ReDisabled) THEN <<"disabled===">> ELSE <<>>]

FixOperators(code) == WithDisabledWarning(FixIfAssign(code, AllMatches(code, ReIfAssign)))

\* (line.match(/{/g) || []).length, and the same for }
CountChar(s, c) == Cardinality({p \in 1..Len(s) : s[p] = c})

\* /case\s+/
ReCaseWord == Lit(<<"c","a","s","e">>) \o <<Plus(SpaceCh)>>

\* lines 268-271; st = [result, inSwitch, switchDepth, braceDepth, n, warn]
TrackSwitch(st, trimmed) ==
    IF StartsWith(trimmed, <<"s","w","i","t","c","h">>)
    THEN [st EXCEPT !.inSwitch = TRUE, !.switchDepth = st.braceDepth]
    ELSE st

\* lines 274-276
TrackBraces(st, line) ==
    [st EXCEPT !.braceDepth = @ + CountChar(line, "{") - CountChar(line, "}")]

\* lines 279-281
LeaveSwitch(st, line) ==
    IF st.inSwitch /\ st.braceDepth <= st.switchDepth /\ CountChar(line, "}") > 0
    THEN [st EXCEPT !.inSwitch = FALSE]
    ELSE st

\* lines 284-290
EmitLine(st, line, trimmed) ==
    IF (StartsWith(trimmed, <<"c","a","s","e"," ">>) \/ trimmed = <<"d","e","f","a","u","l","t",":">>) /\ ~st.inSwitch
    THEN [st EXCEPT
            !.result = Append(@, ReplaceFirst(line, ReCaseWord,
                                   Const(<<"/","*"," ","F","I","X","M","E",":"," ","m","i","s","p","l","a","c","e","d"," ","c","a","s","e"," ","*","/"," ","/","/"," ","c","a","s","e"," ">>))),
            !.n = @ + 1,
            !.warn = Append(@, "misplaced case")]
    ELSE [st EXCEPT !.result = Append(@, line)]

\* one iteration of the loop of _fixMisplacedCaseStatements
MisplacedStep(st, line, trimmed) ==
    EmitLine(LeaveSwitch(TrackBraces(TrackSwitch(st, trimmed), line), line),
             line, trimmed)

RECURSIVE MisplacedFrom(_, _, _)
\* the loop from line i on; st.result holds the lines before i
MisplacedFrom(lines, i, st) ==
    IF i > Len(lines) \/ Len(st.result) # i - 1 THEN st
    ELSE MisplacedFrom(lines, i + 1, MisplacedStep(st, lines[i], Trim(lines[i])))

\* lines 293: what the loop leaves
MisplacedResult(st) == [text |-> JoinNL(st.result), n |-> st.n, warn |-> st.warn]

FixMisplacedCaseStatements(code) ==
    MisplacedResult(
      MisplacedFrom(SplitNL(code), 1,
                    [result |-> <<>>, inSwitch |-> FALSE, switchDepth |-> 0,
                     braceDepth |-> 0, n |-> 0, warn |-> <<>>]))

\* the keywords of line 316
Keywords ==
    <<<<"i","f">>, <<"e","l","s","e">>, <<"f","o","r">>, <<"w","h","i","l","e">>, <<"d","o">>, <<"s","w","i","t","c","h">>, <<"c","a","s","e">>, <<"d","e","f","a","u","l","t">>,
      <<"f","u","n","c","t","i","o","n">>, <<"r","e","t","u","r","n">>, <<"b","r","e","a","k">>, <<"c","o","n","t","i","n","u","e">>>>

\* /^(if|else|...|continue)\b/ : alternatives are tried in order
StartsWithKeyword(s) ==
    \E j \in DOMAIN Keywords : Test(s, <<Bol>> \o Lit(Keywords[j]) \o <<WordB>>)

\* line.match(/^(\s*)/)[1]
LeadingSpace(line) == SubSeq(line, 1, Len(line) - Len(TrimStart(line)))

\* lines 308-316 on the trimmed line
NeedsSemicolonTrimmed(trimmed) ==
    /\ Len(trimmed) > 0
    /\ ~EndsWith(trimmed, <<";">>)
    /\ ~EndsWith(trimmed, <<"{">>)
    /\ ~EndsWith(trimmed, <<"}">>)
    /\ ~EndsWith(trimmed, <<",">>)
    /\ ~StartsWith(trimmed, <<"/","/">>)
    /\ ~StartsWith(trimmed, <<"/","*">>)
    /\ ~StartsWith(trimmed, <<"*">>)
    /\ ~StartsWithKeyword(trimmed)

NeedsSemicolon(line) == NeedsSemicolonTrimmed(Trim(line))

\* lines 319-320
SemicolonLine(line) ==
    IF NeedsSemicolon(line) THEN LeadingSpace(line) \o Trim(line) \o <<";">> ELSE line

SemicolonLines(lines) ==
    [text |-> JoinNL([i \in 1..Len(lines) |-> SemicolonLine(lines[i])]),
     n |-> Cardinality({i \in 1..Len(lines) : NeedsSemicolon(lines[i])}),
     warn |-> <<>>]

FixMissingSemicolons(code) == SemicolonLines(SplitNL(code))

\* lines 337-347 without the appended braces and their count
BalanceBracesNoAppend(text, openBraces, closeBraces) ==
    [text |-> text, n |-> 0, warn |-> <<>>]

\* lines 337-347 for the counted braces
BalanceBraces(code, openBraces, closeBraces) ==
    [text |-> IF openBraces > closeBraces
              THEN code \o <<"\n">> \o Repeat(<<"}">>, openBraces - closeBraces)
              ELSE code,
     n |-> IF openBraces > closeBraces THEN openBraces - closeBraces ELSE 0,
     warn |-> IF openBraces # closeBraces THEN <<"Unbalanced braces">> ELSE <<>>]

FixUnbalancedBraces(code) == BalanceBraces(code, CountChar(code, "{"), CountChar(code, "}"))

\* /\n{3,}/g -> '\n\n'
ReBlankRun == <<SetNode({"\n"}, FALSE, 3, -1, FALSE)>>

\* line 362
TrimEndLines(lines) == JoinNL([i \in 1..Len(lines) |-> TrimEnd(lines[i])])

\* lines 365-367
EnsureNewline(result) ==
    IF EndsWith(result, <<"\n">>) THEN result ELSE result \o <<"\n">>

CleanupFormatting(code) ==
    EnsureNewline(TrimEndLines(SplitNL(ReplaceAll(code, ReBlankRun, Const(<<"\n","\n">>)))))

(***************************************************************************)
(* The inputs of the checked runs.  A scenario is a piece of VBScript: the *)
(* lines it puts before function total() (global declarations, helper      *)
(* functions) and the lines it puts into the body of total.  A program is  *)
(* made of at most MaxScenarios scenarios.                                 *)
(***************************************************************************)
MaxScenarios == 1

Scenario(globals, body) == [globals |-> globals, body |-> body, after |-> <<>>]

\* a scenario that puts lines behind the end of function total
ScenarioAfter(body, after) == [globals |-> <<>>, body |-> body, after |-> after]

Helpers ==
    <<<<"f","u","n","c","t","i","o","n"," ","v","(",")">>, <<"v"," ","="," ","1">>, <<"e","n","d"," ","f","u","n","c","t","i","o","n">>,
      <<"f","u","n","c","t","i","o","n"," ","p","p","(",")">>, <<"p","p"," ","="," ","2">>, <<"e","n","d"," ","f","u","n","c","t","i","o","n">>>>

Scenarios ==
    <<Scenario(<<<<"d","i","m"," ","f","o","o","(","5",")">>>>, <<<<"y"," ","="," ","f","o","o","(","i",")">>>>),
      Scenario(<<<<"d","i","m"," ","f","o","o","(","5",")">>>>, <<<<"f","o","o","(","3",")"," ","="," ","f","o","o","(","3",")"," ","+"," ","1">>>>),
      Scenario(<<>>, <<<<"d","i","m"," ","f","o","o","(","5",")">>, <<"f","o","o","(","i",")"," ","="," ","1">>>>),
      Scenario(<<>>, <<<<"t","o","t","a","l"," ","="," ","x"," ","+"," ","y">>>>),
      Scenario(<<>>, <<<<"i","f"," ","x","=","1"," ","t","h","e","n"," ","t","o","t","a","l"," ","="," ","5">>>>),
      Scenario(<<>>, <<<<"i","f"," ","x","=","1"," ","t","h","e","n"," ","y","=","2">>>>),
      Scenario(Helpers, <<<<"t","o","t","a","l"," ","="," ","v","+","p","p">>>>),
      Scenario(<<>>, <<<<"i","f"," ","a"," ","<",">"," ","1"," ","a","n","d"," ","b"," ","="," ","2"," ","t","h","e","n">>, <<"y"," ","="," ","2">>, <<"e","n","d"," ","i","f">>>>),
      Scenario(<<>>, <<<<"i","f"," ","a"," ","="," ","1"," ","t","h","e","n">>, <<"e","l","s","e","i","f"," ","a"," ","<",">"," ","1"," ","a","n","d"," ","b"," ","="," ","2"," ","t","h","e","n">>, <<"e","n","d"," ","i","f">>>>),
      Scenario(<<>>, <<<<"d","o"," ","w","h","i","l","e"," ","a"," ","<",">"," ","1"," ","a","n","d"," ","b"," ","="," ","2">>, <<"l","o","o","p">>>>),
      Scenario(<<>>, <<<<"k",".","t","4",".","d","i","s","a","b","l","e","d"," ","="," ","f","a","l","s","e">>>>),
      Scenario(<<>>, <<<<"s","e","l","e","c","t"," ","c","a","s","e"," ","x">>, <<"c","a","s","e"," ","1">>, <<"y"," ","="," ","1">>, <<"c","a","s","e"," ","e","l","s","e">>, <<"y"," ","="," ","2">>,
                       <<"e","n","d"," ","s","e","l","e","c","t">>>>),
      Scenario(<<>>, <<<<"i","f"," ","c"," ","t","h","e","n">>, <<"e","l","s","e"," ","x","=","1">>, <<"'"," ","d","o","n","e">>, <<"e","n","d"," ","i","f">>>>),
      Scenario(<<>>, <<<<"i","f"," ","c"," ","t","h","e","n">>, <<"e","l","s","e"," ","x","=","1">>, <<"e","n","d"," ","i","f">>>>),
      Scenario(<<>>, <<<<"i","f"," ","c"," ","t","h","e","n">>, <<"y"," ","="," ","1">>>>),
      Scenario(<<>>, <<<<"w","(","i",")"," ","="," ","c","h","r","(","1","3",")">>>>),
      Scenario(<<>>, <<<<"e","n","d"," ","i","f">>, <<"e","n","d"," ","i","f">>>>),
      Scenario(<<<<"f","u","n","c","t","i","o","n"," ","v","(",")">>, <<"v"," ","="," ","1">>>>, <<>>),
      ScenarioAfter(<<<<"f","o","o","(","3",")"," ","="," ","f","o","o","(","3",")"," ","+"," ","1">>>>, <<<<"d","i","m"," ","f","o","o","(","5",")">>>>),
      ScenarioAfter(<<<<"y"," ","="," ","f","o","o","(","i",")">>>>, <<<<"d","i","m"," ","f","o","o","(","5",")">>>>),
      Scenario(<<<<"d","i","m"," ","t","o","t","a","l","(","5",")">>>>, <<<<"y"," ","="," ","t","o","t","a","l","(","3",")">>>>),
      Scenario(<<>>, <<<<"x"," ","="," ","C","r","e","a","t","e","O","b","j","e","c","t","(","\"","a",".","b","\"",")">>>>),
      Scenario(<<>>, <<<<"x"," ","="," ","c","r","e","a","t","e","o","b","j","e","c","t","(","\"","a",".","b","\"",")">>>>),
      Scenario(<<>>, <<<<"y"," ","="," ","a","&","b","&","c">>>>),
      Scenario(<<<<"d","i","m"," ","f","o","o","(","5",")">>, <<"f","o","o","(","3",")"," ","="," ","f","o","o","(","3",")"," ","+"," ","1">>>>, <<>>),
      Scenario(<<>>, <<<<"d","o">>, <<"y"," ","="," ","1">>, <<"l","o","o","p"," ","w","h","i","l","e"," ","a"," ","<"," ","3">>>>),
      Scenario(<<>>, <<<<"d","o">>, <<"y"," ","="," ","1">>, <<"l","o","o","p"," ","u","n","t","i","l"," ","a"," ",">"," ","3">>>>),
      Scenario(<<>>, <<<<"f","o","r"," ","i"," ","="," ","a"," ","t","o"," ","b">>, <<"y"," ","="," ","1">>, <<"n","e","x","t">>>>),
      Scenario(<<<<"f","u","n","c","t","i","o","n"," ","v","(",")">>, <<"d","i","m"," ","f","o","o","(","5",")">>, <<"e","n","d"," ","f","u","n","c","t","i","o","n">>>>, <<<<"y"," ","="," ","f","o","o","(","3",")">>>>),
      Scenario(<<<<"f","u","n","c","t","i","o","n"," ","v","(",")">>, <<"e","n","d"," ","f","u","n","c","t","i","o","n">>>>, <<<<"y"," ","="," ","f","o","o","(","3",")">>>>),
      Scenario(<<<<"f","u","n","c","t","i","o","n"," ","v","(",")">>, <<"i","f"," ","t","o","t","a","l"," ","="," ","3"," ","t","h","e","n">>, <<"v"," ","="," ","1">>, <<"e","n","d"," ","i","f">>, <<"e","n","d"," ","f","u","n","c","t","i","o","n">>>>, <<<<"t","o","t","a","l"," ","="," ","5">>>>)>>

RECURSIVE Flatten(_)
Flatten(seqs) == IF Len(seqs) = 0 THEN <<>> ELSE Head(seqs) \o Flatten(Tail(seqs))

\* the choices of at most MaxScenarios scenarios, in order
Choices == UNION {[1..n -> DOMAIN Scenarios] : n \in 0..MaxScenarios}

Program(choice) ==
    JoinNL(Flatten([j \in DOMAIN choice |-> Scenarios[choice[j]].globals])
             \o <<<<"f","u","n","c","t","i","o","n"," ","t","o","t","a","l","(",")">>>>
             \o Flatten([j \in DOMAIN choice |-> Scenarios[choice[j]].body])
             \o <<<<"e","n","d"," ","f","u","n","c","t","i","o","n">>>>
             \o Flatten([j \in DOMAIN choice |-> Scenarios[choice[j]].after]))

Programs == {Program(choice) : choice \in Choices}

\* the texts handed to the post-processor on their own: at most MaxPostLines
\* lines of PostLines
MaxPostLines == 4

PostLines ==
    <<<<"i","f"," ","(","a","=","b"," ","&","&"," ","c","=","d",")"," ","{">>, <<" ">>, <<"w","(","i",")"," ","="," ","c","h","r","(","1","3",")">>, <<"}">>>>

PostTexts ==
    {JoinNL([j \in DOMAIN t |-> PostLines[t[j]]]) :
       t \in UNION {[1..n -> DOMAIN PostLines] : n \in 1..MaxPostLines}}

\* texts with clause labels, inside and outside a switch block
PostExtras ==
    {<<"d","e","f","a","u","l","t",":">>, <<"c","a","s","e"," ","1",":">>,
     JoinNL(<<<<"s","w","i","t","c","h"," ","(","x",")"," ","{">>, <<"c","a","s","e"," ","1",":">>, <<"b","r","e","a","k",";">>, <<"}">>, <<"d","e","f","a","u","l","t",":">>>>),
     JoinNL(<<<<"s","w","i","t","c","h"," ","(","x",")"," ","{">>, <<"c","a","s","e"," ","1",":">>, <<"s","w","i","t","c","h"," ","(","y",")"," ","{">>, <<"c","a","s","e"," ","3",":">>, <<"}">>, <<"c","a","s","e"," ","2",":">>, <<"}">>>>)}

\* the number of calls of PostProcessor.process on one instance
MaxCalls == 2

(***************************************************************************)
(* VBScriptTranspiler (unnamed/part_006): the passes of transpile, each a   *)
(* chain of String.prototype.replace calls on the whole text.              *)
(***************************************************************************)
\* _convertVariableDeclarations (lines 40-51)
ConvertVariableDeclarations(text) ==
    ReplaceAll(
      ReplaceAll(
        ReplaceAll(text,
                   <<WordB>> \o LitI(<<"d","i","m">>) \o <<Plus(SpaceCh)>> \o Grp(1, <<Plus(WordCh)>>)
                     \o <<Star(SpaceCh)>> \o Lit(<<"(">>) \o Grp(2, <<Plus(Digit)>>) \o Lit(<<")">>),
                   <<Piece(<<"c","o","n","s","t"," ">>, 1), Piece(<<" ","="," ","n","e","w"," ","A","r","r","a","y","(">>, 2), Piece(<<" ","+"," ","1",")">>, 0)>>),
        <<WordB>> \o LitI(<<"d","i","m">>) \o <<Plus(SpaceCh)>> \o Grp(1, <<Plus(WordCh)>>),
        <<Piece(<<"l","e","t"," ">>, 1)>>),
      <<WordB>> \o LitI(<<"s","e","t">>) \o <<Plus(SpaceCh)>> \o Grp(1, <<Plus(WordCh)>>)
        \o <<Star(SpaceCh)>> \o Lit(<<"=">>),
      <<Piece(<<"c","o","n","s","t"," ">>, 1), Piece(<<" ","=">>, 0)>>)

\* /\b(function|sub)\s+(\w+)\s*\((.*?)\)/gi -> 'function $1($2) {', lines 57, 61
ConvertDeclaration(text, word) ==
    ReplaceAll(text,
               <<WordB>> \o LitI(word) \o <<Plus(SpaceCh)>> \o Grp(1, <<Plus(WordCh)>>)
                 \o <<Star(SpaceCh)>> \o Lit(<<"(">>) \o Grp(2, <<DotStarLazy>>) \o Lit(<<")">>),
               <<Piece(<<"f","u","n","c","t","i","o","n"," ">>, 1), Piece(<<"(">>, 2), Piece(<<")"," ","{">>, 0)>>)

\* /\bend\s+(function|sub)/gi -> '}', lines 58, 62
ConvertEnd(text, word) ==
    ReplaceAll(text, <<WordB>> \o LitI(<<"e","n","d">>) \o <<Plus(SpaceCh)>> \o LitI(word), Const(<<"}">>))

\* lines 65-70: the names funcPattern finds in the text
FunctionNamesIn(text, ms) == [j \in DOMAIN ms |-> Cap(text, ms[j], 1)]

\* line 73-74: new RegExp(`\\b${name}\\s*=\\s*(.+)$`, 'gim') -> 'return $1;'
ConvertReturn(text, name) ==
    ReplaceAll(text,
               <<WordB>> \o LitI(name) \o <<Star(SpaceCh)>> \o Lit(<<"=">>) \o <<Star(SpaceCh)>>
                 \o Grp(1, <<DotPlus>>) \o <<EolM>>,
               <<Piece(<<"r","e","t","u","r","n"," ">>, 1), Piece(<<";">>, 0)>>)

RECURSIVE ConvertReturns(_, _)
\* lines 72-75: functionNames.forEach
ConvertReturns(text, names) ==
    IF Len(names) = 0 THEN text
    ELSE ConvertReturns(ConvertReturn(text, Head(names)), Tail(names))

\* lines 65-75, on the text with the declarations converted
ConvertFunctionReturns(text) ==
    ConvertReturns(text,
                   FunctionNamesIn(text, AllMatches(text, LitI(<<"f","u","n","c","t","i","o","n">>) \o <<Plus(SpaceCh)>>
                                                            \o Grp(1, <<Plus(WordCh)>>))))

\* _convertFunctions (lines 53-78)
ConvertFunctions(text) ==
    ConvertFunctionReturns(
      ConvertEnd(ConvertDeclaration(ConvertEnd(ConvertDeclaration(text, <<"f","u","n","c","t","i","o","n">>),
                                               <<"f","u","n","c","t","i","o","n">>),
                                    <<"s","u","b">>),
                 <<"s","u","b">>))

\* /\s*=\s*(true|false)\b/gi -> ' === true', lines 101-102
ConvertEqualsWord(text, word) ==
    ReplaceAll(text, <<Star(SpaceCh)>> \o Lit(<<"=">>) \o <<Star(SpaceCh)>> \o LitI(word) \o <<WordB>>,
               Const(<<" ","=","=","="," ">> \o word))

\* /\b WORD \b/gi, lines 96-98
ConvertWord(text, word, to) ==
    ReplaceAll(text, <<WordB>> \o LitI(<<" ">> \o word \o <<" ">>) \o <<WordB>>, Const(to))

\* _convertOperators (lines 92-105)
ConvertOperators(text) ==
    ConvertEqualsWord(
      ConvertEqualsWord(
        ConvertWord(ConvertWord(ConvertWord(text, <<"a","n","d">>, <<" ","&","&"," ">>), <<"o","r">>, <<" ","|","|"," ">>),
                    <<"n","o","t">>, <<" ","!">>),
        <<"t","r","u","e">>),
      <<"f","a","l","s","e">>)

\* /\b(if|elseif)\s+(.*?)\s+then\s*$/gim, lines 84-85
ConvertIfHeader(text, word, to) ==
    ReplaceAll(text,
               <<WordB>> \o LitI(word) \o <<Plus(SpaceCh)>> \o Grp(1, <<DotStarLazy>>)
                 \o <<Plus(SpaceCh)>> \o LitI(<<"t","h","e","n">>) \o <<Star(SpaceCh), EolM>>,
               <<Piece(to, 1), Piece(<<")"," ","{">>, 0)>>)

\* _convertConditionals (lines 80-90)
ConvertConditionals(text) ==
    ReplaceAll(
      ReplaceAll(
        ConvertIfHeader(ConvertIfHeader(text, <<"i","f">>, <<"i","f"," ","(">>), <<"e","l","s","e","i","f">>, <<"}"," ","e","l","s","e"," ","i","f"," ","(">>),
        <<WordB>> \o LitI(<<"e","l","s","e">>) \o <<Star(SpaceCh), EolM>>,
        Const(<<"}"," ","e","l","s","e"," ","{">>)),
      <<WordB>> \o LitI(<<"e","n","d">>) \o <<Plus(SpaceCh)>> \o LitI(<<"i","f">>),
      Const(<<"}">>))

\* _convertLoops (lines 107-116)
ConvertLoops(text) ==
    ReplaceAll(
      ReplaceAll(text,
                 <<WordB>> \o LitI(<<"f","o","r">>) \o <<Plus(SpaceCh)>> \o Grp(1, <<Plus(WordCh)>>)
                   \o <<Star(SpaceCh)>> \o Lit(<<"=">>) \o <<Star(SpaceCh)>>
                   \o Grp(2, <<Plus(Digit)>>) \o <<Plus(SpaceCh)>> \o LitI(<<"t","o">>)
                   \o <<Plus(SpaceCh)>> \o Grp(3, <<Plus(Digit)>>),
                 <<Piece(<<"f","o","r"," ","(","l","e","t"," ">>, 1), Piece(<<" ","="," ">>, 2), Piece(<<";"," ">>, 1),
                   Piece(<<" ","<","="," ">>, 3), Piece(<<";"," ">>, 1), Piece(<<"+","+",")">>, 0)>>),
      <<WordB>> \o LitI(<<"n","e","x","t">>) \o <<WordB>>,
      Const(<<"}">>))

\* _convertArrays (lines 118-126): the replace is commented out
ConvertArrays(text) == text

\* /\.checked\s*=\s*(true|false)/gi, lines 136-137
ConvertChecked(text, word) ==
    ReplaceAll(text,
               LitI(<<".","c","h","e","c","k","e","d">>) \o <<Star(SpaceCh)>> \o Lit(<<"=">>) \o <<Star(SpaceCh)>> \o LitI(word),
               Const(<<".","c","h","e","c","k","e","d"," ","="," ">> \o word))

\* _convertObjectReferences (lines 128-140)
ConvertObjectReferences(text) ==
    ConvertChecked(
      ConvertChecked(
        ReplaceAll(text, <<WordB>> \o LitI(<<"d","o","c","u","m","e","n","t",".","f","r","m","1",".">>), Const(<<"d","o","c","u","m","e","n","t",".","f","o","r","m","s",".","f","r","m","1",".">>)),
        <<"t","r","u","e">>),
      <<"f","a","l","s","e">>)

\* _convertStringConcatenation (lines 141-148)
ConvertStringConcatenation(text) == ReplaceAll(text, ReConcat, TplConcat)

\* _convertComments (lines 150-157): /^\s*'/gm -> '//'
ConvertComments(text) ==
    ReplaceAll(text, <<BolM, Star(SpaceCh)>> \o Lit(<<"'">>), Const(<<"/","/">>))

\* _convertMiscellaneous (lines 159-170)
ConvertMiscellaneous(text) ==
    ReplaceAll(
      ReplaceAll(text, ReCreateFso,
                 Const(<<"/","*"," ","F","i","l","e","S","y","s","t","e","m","O","b","j","e","c","t"," ","n","o","t"," ","a","v","a","i","l","a","b","l","e"," ","i","n"," ","b","r","o","w","s","e","r"," ","*","/"," ","n","u","l","l">>)),
      <<BolM>> \o Grp(1, <<Star(SpaceCh)>>)
        \o Grp(2, <<Alt(LitI(<<"l","e","t">>),
                       <<Alt(LitI(<<"c","o","n","s","t">>), <<Alt(LitI(<<"r","e","t","u","r","n">>), LitI(<<"v","a","r">>))>>)>>),
                   Plus(SpaceCh), DotStar>>)
        \o <<EolM>>,
      <<Piece(<<>>, 1), Piece(<<>>, 2), Piece(<<";">>, 0)>>)

\* the number of calls of transpile on one AdvancedTranspiler
MaxTranspiles == 2

\* the programs handed to the calls of transpile on one object
CallScenarios == {1, 4, 7, 20}

CallPrograms == {Program(<<k>>) : k \in CallScenarios}

(***************************************************************************)
(* The web app (webapp/js/app.js, webapp/js/assessment-engine.js).         *)
(* this.questions is the sequence of the question ids, answers is          *)
(* engine.answers: a function from the ids answered to the values.         *)
(***************************************************************************)
\* the largest number of loaded questions
MaxQuestions == 2

\* what loadQuestions leaves in this.questions: the ids of data.questions, or
\* [] when the fetch failed
QuestionLists == UNION {[1..n -> 1..MaxQuestions] : n \in 0..MaxQuestions}

\* the values of the radio buttons
AnswerValues == {"true", "false"}

NoAnswers == [q \in {} |-> "true"]

\* AssessmentEngine.recordAnswer: this.answers[questionId] = answer
EngineRecordAnswer(ans, questionId, answer) ==
    [q \in DOMAIN ans \cup {questionId} |-> IF q = questionId THEN answer ELSE ans[q]]

\* AssessmentEngine.getAnswer: this.answers[questionId] || null
GetAnswer(ans, questionId) == IF questionId \in DOMAIN ans THEN ans[questionId] ELSE "null"

\* isComplete with the comparison loosened by one
IsCompleteButOne(ans, totalQuestions) == Cardinality(DOMAIN ans) >= totalQuestions - 1

\* AssessmentEngine.isComplete: Object.keys(this.answers).length === totalQuestions
IsComplete(ans, totalQuestions) == Cardinality(DOMAIN ans) = totalQuestions

\* AssessmentEngine.getResults, as far as the answers decide it
GetResults(ans) == [kind |-> "results", totalQuestions |-> Cardinality(DOMAIN ans)]

\* this.lastResults before it is first assigned, and after restartAssessment
UndefinedResults == [kind |-> "undefined", totalQuestions |-> 0]
NullResults == [kind |-> "null", totalQuestions |-> 0]

\* the codes of the 26 scales of initializeScales
ScaleCodes ==
    {"V", "PP", "CC", "SS", "T", "B", "D", "N", "H", "A", "P", "C", "S",
     "8B", "8A", "7", "6B", "6A", "5", "4", "3", "2", "1", "X", "Y", "Z"}

\* initializeScales: every scale starts with the value 0
InitializeScales == [c \in ScaleCodes |-> 0]

\* the codes of the clinical personality patterns, in the order of the loop
Patterns == <<"2", "3", "4", "5", "6A", "6B", "7", "8A", "8B">>

\* Math.round(num / den) for num >= 0 and den > 0
Round(num, den) == (2 * num + den) \div (2 * den)

\* the values of Math.random() * 20 - 10 drawn here: random() = 0 and random() = 0.5
Variances == {0 - 10, 0}

\* at most this many of the nine draws of one call are the low one
MaxLowDraws == 1

\* the outcomes of the nine Math.random() calls of one calculateScores
VarianceDraws ==
    {v \in [1..Len(Patterns) -> Variances] :
        Cardinality({i \in 1..Len(Patterns) : v[i] # 0}) <= MaxLowDraws}

\* calculateScores: the value of every scale from the answers and the nine draws;
\* trueRatio is trueCount / totalAnswers, kept as the fraction tr / n
CalculateScoresOf(ans, variance) ==
    LET totalAnswers == Cardinality(DOMAIN ans)
        trueCount == Cardinality({q \in DOMAIN ans : ans[q] = "true"})
        n == IF totalAnswers > 0 THEN totalAnswers ELSE 1
        tr == IF totalAnswers > 0 THEN trueCount ELSE 0
        Up(base, k) == Round(base * n + k * tr, n)
        Down(base, k) == Round(base * n + k * (n - tr), n)
        Idx(c) == CHOOSE i \in 1..Len(Patterns) : Patterns[i] = c
        Raw(c) ==
            CASE c = "V" -> Up(0, 100)
              [] c = "X" -> Down(15, 85)
              [] c = "Y" -> Up(0, 90)
              [] c = "Z" -> Round(40 * (IF 2 * tr >= n THEN 2 * tr - n ELSE n - 2 * tr), n)
              [] c = "1" -> Up(0, 110)
              [] (\E i \in 1..Len(Patterns) : Patterns[i] = c) ->
                   Up(45 + (Idx(c) - 1) * 5 + variance[Idx(c)], 30)
              [] c = "S" -> Up(50, 40)
              [] c = "C" -> Down(55, 35)
              [] c = "P" -> Up(48, 42)
              [] c = "A" -> Up(52, 38)
              [] c = "H" -> Up(47, 33)
              [] c = "N" -> Up(50, 40)
              [] c = "D" -> Up(45, 35)
              [] c = "B" -> Up(40, 30)
              [] c = "T" -> Up(42, 28)
              [] c = "SS" -> Up(48, 42)
              [] c = "CC" -> Up(50, 45)
              [] c = "PP" -> Up(46, 38)
    IN  [c \in ScaleCodes |-> Raw(c)]

(***************************************************************************)
(* The state machine: one run of AdvancedTranspiler.transpile on `code`,   *)
(* followed by calls of PostProcessor.process on one PostProcessor.        *)
(*   pc                  where the run stands                              *)
(*   tokens, parsed      the parser's tokens and its result                *)
(*   kb                  knownArrays and knownFunctions                    *)
(*   unknownTokens       this.unknownTokens, in insertion order            *)
(*   funcIdx, body       the function being transpiled and the locals of   *)
(*                       _transpileBody                                    *)
(*   transpiledFunctions the texts of the functions done                   *)
(*   fullCode            the text transpile returns: the text given to the *)
(*                       first call of process                             *)
(*   result              the local `result` of process                     *)
(*   fixes               this.fixes of the PostProcessor                   *)
(*   warnings            the messages given to logger.warning              *)
(*   inputs, outputs     the arguments and return values of process        *)
(*   fixesBefore         this.fixes at the start of each call of process   *)
(*   invocations         the calls of transpile made on the transpiler     *)
(*   questions, screen, answers, currentQuestionIndex, lastResults,        *)
(*   lastAlert           the fields of App and of its engine, the active   *)
(*                       screen and the last message given to alert        *)
(***************************************************************************)
VARIABLES pc, code, tokens, parsed, kb, unknownTokens, funcIdx, body,
          transpiledFunctions, fullCode, result, fixes, warnings,
          inputs, outputs, fixesBefore, invocations,
          questions, screen, answers, currentQuestionIndex, lastResults, lastAlert,
          vbJsCode, loaded, scores, scoredAnswers, repeatable

vars == <<pc, code, tokens, parsed, kb, unknownTokens, funcIdx, body,
          transpiledFunctions, fullCode, result, fixes, warnings,
          inputs, outputs, fixesBefore, invocations,
          questions, screen, answers, currentQuestionIndex, lastResults, lastAlert,
          vbJsCode, loaded, scores, scoredAnswers, repeatable>>

parserVars == <<tokens, parsed>>
transpilerVars == <<kb, unknownTokens, funcIdx, body, transpiledFunctions, fullCode>>
postVars == <<result, fixes, inputs, outputs, fixesBefore>>
appVars == <<questions, screen, answers, currentQuestionIndex, lastResults, lastAlert>>
engineVars == <<scores, scoredAnswers, repeatable>>
restVars == <<vbJsCode, loaded, engineVars>>

\* the App before init has loaded the questions
NoApp ==
    /\ questions = <<>>
    /\ screen = "welcome-screen"
    /\ answers = NoAnswers
    /\ currentQuestionIndex = 0
    /\ lastResults = UndefinedResults
    /\ lastAlert = "none"
    /\ vbJsCode = <<>>
    /\ loaded = TRUE
    /\ scores = InitializeScales
    /\ scoredAnswers = <<>>
    /\ repeatable = TRUE

NoFixes == [charCodes |-> 0, syntaxIssues |-> 0, arrayAccess |-> 0, operatorFixes |-> 0]

NoParsed == [functions |-> <<>>, globalVariables |-> <<>>]

\* the fields of a fresh AdvancedTranspiler and a fresh PostProcessor
Fresh ==
    /\ tokens = <<>>
    /\ parsed = NoParsed
    /\ kb = [knownArrays |-> <<>>, knownFunctions |-> <<>>]
    /\ unknownTokens = <<>>
    /\ funcIdx = 0
    /\ body = BodyInit
    /\ transpiledFunctions = <<>>
    /\ result = <<>>
    /\ fixes = NoFixes
    /\ warnings = <<>>
    /\ inputs = <<>>
    /\ outputs = <<>>
    /\ fixesBefore = <<>>

Init ==
    /\ pc = "tokenize"
    /\ code \in Programs
    /\ fullCode = <<>>
    /\ invocations = 1
    /\ Fresh
    /\ NoApp

\* the first of several calls of transpile on one object
InitCalls ==
    /\ pc = "tokenize"
    /\ code \in CallPrograms
    /\ fullCode = <<>>
    /\ invocations = 1
    /\ Fresh
    /\ NoApp

\* the post-processor alone, given a text
InitPost ==
    /\ pc = "transpiled"
    /\ code = <<>>
    /\ fullCode \in PostTexts \cup PostExtras
    /\ invocations = 0
    /\ Fresh
    /\ NoApp

\* the App after init (app.js lines 18-34): the questions are loaded, or the
\* fetch failed and this.questions is still []
InitApp ==
    /\ pc = "app"
    /\ code = <<>>
    /\ fullCode = <<>>
    /\ invocations = 0
    /\ Fresh
    /\ questions \in QuestionLists
    /\ screen = "welcome-screen"
    /\ answers = NoAnswers
    /\ currentQuestionIndex = 0
    /\ lastResults = UndefinedResults
    /\ lastAlert = "none"
    /\ vbJsCode = <<>>
    /\ loaded = TRUE
    /\ scores = InitializeScales
    /\ scoredAnswers = <<>>
    /\ repeatable = TRUE

(***************************************************************************)
(* AdvancedVBScriptParser.parse                                            *)
(***************************************************************************)
\* _tokenize (lines 49-140)
TokenizeCode ==
    /\ pc = "tokenize"
    /\ tokens' = Tokenize(code)
    /\ pc' = IF TokenizeThrows(tokens') THEN "failed" ELSE "buildAST"
    /\ UNCHANGED <<invocations, appVars, restVars>>
    /\ UNCHANGED <<code, parsed, transpilerVars, postVars, warnings>>

\* _buildAST and _extractFunctions (lines 142-229)
BuildASTOfTokens ==
    /\ pc = "buildAST"
    /\ parsed' = ParsedOf(BuildAST(tokens))
    /\ pc' = "knowledge"
    /\ UNCHANGED <<invocations, appVars, restVars>>
    /\ UNCHANGED <<code, tokens, transpilerVars, postVars, warnings>>

(***************************************************************************)
(* AdvancedTranspiler.transpile                                            *)
(***************************************************************************)
\* _buildKnowledgeBase (lines 73-96)
BuildKnowledge ==
    /\ pc = "knowledge"
    /\ kb' = BuildKnowledgeBase(kb, parsed)
    /\ pc' = "functions"
    /\ UNCHANGED <<invocations, appVars, restVars>>
    /\ UNCHANGED <<code, parserVars, unknownTokens, funcIdx, body,
                   transpiledFunctions, fullCode, postVars, warnings>>

\* the loop of lines 31-34 enters _transpileFunction for the next function
StartFunction ==
    /\ pc = "functions"
    /\ funcIdx < Len(parsed.functions)
    /\ funcIdx' = funcIdx + 1
    /\ body' = BodyInit
    /\ pc' = "body"
    /\ UNCHANGED <<invocations, appVars, restVars>>
    /\ UNCHANGED <<code, parserVars, kb, unknownTokens, transpiledFunctions,
                   fullCode, postVars, warnings>>

RECURSIVE AddAll(_, _)
\* this.unknownTokens.add(x) for each x of xs
AddAll(seq, xs) == IF Len(xs) = 0 THEN seq ELSE AddAll(SetAdd(seq, Head(xs)), Tail(xs))

\* one iteration of the loop of _transpileBody (lines 152-260)
TranspileToken ==
    /\ pc = "body"
    /\ body.i <= Len(parsed.functions[funcIdx].bodyTokens)
    /\ body' = BodyStep([body EXCEPT !.unknown = <<>>],
                        parsed.functions[funcIdx].bodyTokens,
                        parsed.functions[funcIdx], kb.knownArrays)
    /\ unknownTokens' = AddAll(unknownTokens, body'.unknown)
    /\ pc' = IF body'.threw THEN "failed" ELSE "body"
    /\ UNCHANGED <<invocations, appVars, restVars>>
    /\ UNCHANGED <<code, parserVars, kb, funcIdx, transpiledFunctions, fullCode,
                   postVars, warnings>>

\* the loop of _transpileBody is over: lines 136-144 and transpiledFunctions.push
FinishFunction ==
    /\ pc = "body"
    /\ body.i > Len(parsed.functions[funcIdx].bodyTokens)
    /\ transpiledFunctions' =
         Append(transpiledFunctions, FunctionText(parsed.functions[funcIdx], body.lines))
    /\ pc' = "functions"
    /\ UNCHANGED <<invocations, appVars, restVars>>
    /\ UNCHANGED <<code, parserVars, kb, unknownTokens, funcIdx, body, fullCode,
                   postVars, warnings>>

\* lines 37-62: the global variables, fullCode and the report of unknown tokens
Combine ==
    /\ pc = "functions"
    /\ funcIdx = Len(parsed.functions)
    /\ fullCode' = FullCode(TranspileGlobalVariables(parsed.globalVariables),
                            transpiledFunctions)
    /\ warnings' = IF Len(unknownTokens) > 0
                   THEN Append(warnings, "unknown token patterns") ELSE warnings
    /\ pc' = "transpiled"
    /\ UNCHANGED <<invocations, appVars, restVars>>
    /\ UNCHANGED <<code, parserVars, kb, unknownTokens, funcIdx, body,
                   transpiledFunctions, postVars>>

(***************************************************************************)
(* PostProcessor.process (Logger.js lines 92-115)                          *)
(***************************************************************************)
\* the entry of process(jsCode)
Enter(jsCode) ==
    /\ inputs' = Append(inputs, jsCode)
    /\ result' = jsCode
    /\ fixesBefore' = Append(fixesBefore, fixes)
    /\ pc' = "charCodes"
    /\ UNCHANGED <<invocations, appVars, restVars>>
    /\ UNCHANGED <<code, parserVars, transpilerVars, fixes, outputs, warnings>>

\* process is called on the transpiled text
ProcessCall ==
    /\ pc = "transpiled"
    /\ Enter(fullCode)

\* process is called again, on what it returned
ProcessAgain ==
    /\ pc = "processed"
    /\ Len(inputs) < MaxCalls
    /\ Enter(outputs[Len(outputs)])

\* the common shape of a pass: r is what the pass returns for `result`
Pass(at, r, counter, to) ==
    /\ pc = at
    /\ result' = r.text
    /\ fixes' = [fixes EXCEPT ![counter] = @ + r.n]
    /\ warnings' = warnings \o r.warn
    /\ pc' = to
    /\ UNCHANGED <<invocations, appVars, restVars>>
    /\ UNCHANGED <<code, parserVars, transpilerVars, inputs, outputs, fixesBefore>>

\* line 98
PassCharacterCodes ==
    Pass("charCodes", ConvertCharacterCodes(result), "charCodes", "arrayAccess")

\* line 101
PassArrayAccess ==
    Pass("arrayAccess", FixArrayAccess(result), "arrayAccess", "operators")

\* line 104
PassOperators ==
    Pass("operators", FixOperators(result), "operatorFixes", "misplacedCase")

\* line 242
PassMisplacedCase ==
    Pass("misplacedCase", FixMisplacedCaseStatements(result), "syntaxIssues", "semicolons")

\* line 245
PassSemicolons ==
    Pass("semicolons", FixMissingSemicolons(result), "syntaxIssues", "braces")

\* line 248
PassBraces ==
    Pass("braces", FixUnbalancedBraces(result), "syntaxIssues", "cleanup")

\* lines 110-114: the last pass, and process returns
PassCleanup ==
    /\ pc = "cleanup"
    /\ result' = CleanupFormatting(result)
    /\ outputs' = Append(outputs, result')
    /\ pc' = "processed"
    /\ UNCHANGED <<invocations, appVars, restVars>>
    /\ UNCHANGED <<code, parserVars, transpilerVars, fixes, inputs, fixesBefore, warnings>>

\* PostProcessor.getStats (lines 375-380)
GetStats ==
    [charCodes |-> fixes.charCodes, syntaxIssues |-> fixes.syntaxIssues,
     arrayAccess |-> fixes.arrayAccess, operatorFixes |-> fixes.operatorFixes,
     total |-> fixes.charCodes + fixes.syntaxIssues + fixes.arrayAccess
                 + fixes.operatorFixes]

ProcessPass ==
    \/ ProcessCall
    \/ PassCharacterCodes
    \/ PassArrayAccess
    \/ PassOperators
    \/ PassMisplacedCase
    \/ PassSemicolons
    \/ PassBraces
    \/ PassCleanup

NextPost ==
    \/ ProcessPass
    \/ ProcessAgain

Next ==
    \/ TokenizeCode
    \/ BuildASTOfTokens
    \/ BuildKnowledge
    \/ StartFunction
    \/ TranspileToken
    \/ FinishFunction
    \/ Combine
    \/ ProcessPass

Spec == Init /\ [][Next]_vars

SpecPost == InitPost /\ [][NextPost]_vars

(***************************************************************************)
(* Several calls of transpile on one AdvancedTranspiler: the constructor   *)
(* (lines 12-17) made knownArrays, knownFunctions and unknownTokens, and   *)
(* transpile (lines 19-35) makes a new parser and new locals.              *)
(***************************************************************************)
TranspileAgain ==
    /\ pc \in {"transpiled", "failed"}
    /\ invocations < MaxTranspiles
    /\ invocations' = invocations + 1
    /\ code' \in CallPrograms
    /\ tokens' = <<>>
    /\ parsed' = NoParsed
    /\ funcIdx' = 0
    /\ body' = BodyInit
    /\ transpiledFunctions' = <<>>
    /\ fullCode' = <<>>
    /\ pc' = "tokenize"
    /\ UNCHANGED <<kb, unknownTokens, postVars, warnings, appVars, restVars>>

NextCalls ==
    \/ TokenizeCode
    \/ BuildASTOfTokens
    \/ BuildKnowledge
    \/ StartFunction
    \/ TranspileToken
    \/ FinishFunction
    \/ Combine
    \/ TranspileAgain

SpecCalls == InitCalls /\ [][NextCalls]_vars

(***************************************************************************)
(* The handlers of App (webapp/js/app.js)                                  *)
(***************************************************************************)
toolVars == <<pc, code, parserVars, transpilerVars, postVars, warnings, invocations,
              vbJsCode, engineVars>>

\* this.questions[this.currentQuestionIndex] is a question
HasCurrentQuestion ==
    currentQuestionIndex >= 0 /\ currentQuestionIndex < Len(questions)

CurrentQuestionId == questions[currentQuestionIndex + 1]

\* the handlers below are installed by setupEventListeners, which init calls
\* after loadQuestions has returned (lines 23-26): they run only when loaded

\* startAssessment (lines 102-119); with no gender checked, line 108 throws
StartAssessment ==
    /\ loaded
    /\ \E genderChecked \in BOOLEAN :
         IF genderChecked
         THEN screen' = "assessment-screen" /\ currentQuestionIndex' = 0
         ELSE UNCHANGED <<screen, currentQuestionIndex>>
    /\ UNCHANGED <<questions, answers, lastResults, lastAlert, loaded, toolVars>>

\* recordAnswer (lines 161-165); with no current question, line 163 throws
RecordAnswer ==
    /\ loaded
    /\ \E value \in AnswerValues :
         answers' = IF HasCurrentQuestion
                    THEN EngineRecordAnswer(answers, CurrentQuestionId, value)
                    ELSE answers
    /\ UNCHANGED <<questions, screen, currentQuestionIndex, lastResults, lastAlert, loaded, toolVars>>

\* previousQuestion (lines 167-172)
PreviousQuestion ==
    /\ loaded
    /\ currentQuestionIndex' =
         IF currentQuestionIndex > 0 THEN currentQuestionIndex - 1 ELSE currentQuestionIndex
    /\ UNCHANGED <<questions, screen, answers, lastResults, lastAlert, loaded, toolVars>>

\* nextQuestion (lines 174-188); with no current question, line 177 throws
NextQuestion ==
    /\ loaded
    /\ IF ~HasCurrentQuestion
       THEN UNCHANGED <<currentQuestionIndex, lastAlert>>
       ELSE IF GetAnswer(answers, CurrentQuestionId) = "null"
       THEN lastAlert' = "select an answer" /\ UNCHANGED currentQuestionIndex
       ELSE /\ currentQuestionIndex' =
                 IF currentQuestionIndex < Len(questions) - 1
                 THEN currentQuestionIndex + 1 ELSE currentQuestionIndex
            /\ UNCHANGED lastAlert
    /\ UNCHANGED <<questions, screen, answers, lastResults, loaded, toolVars>>

\* submitAssessment (lines 190-206), displayResults (line 233) and showScreen
SubmitAssessment ==
    /\ loaded
    /\ IF ~IsComplete(answers, Len(questions))
       THEN lastAlert' = "questions remaining" /\ UNCHANGED <<screen, lastResults>>
       ELSE /\ lastResults' = GetResults(answers)
            /\ screen' = "results-screen"
            /\ UNCHANGED lastAlert
    /\ UNCHANGED <<questions, answers, currentQuestionIndex, loaded, toolVars>>

\* restartAssessment (lines 249-261); confirm() may be declined
RestartAssessment ==
    /\ loaded
    /\ \E confirmed \in BOOLEAN :
         IF confirmed
         THEN /\ answers' = NoAnswers
              /\ currentQuestionIndex' = 0
              /\ lastResults' = NullResults
              /\ screen' = "welcome-screen"
         ELSE UNCHANGED <<answers, currentQuestionIndex, lastResults, screen>>
    /\ UNCHANGED <<questions, lastAlert, loaded, toolVars>>

\* the answers generateMockAnswers (assessment-engine.js lines 174-204) leaves:
\* every question gets a value, Math.random decides which
MockAnswers(ans, ids) ==
    {[q \in DOMAIN ans \cup ids |-> IF q \in ids THEN f[q] ELSE ans[q]] :
       f \in [ids -> AnswerValues]}

\* autoFillForTesting (lines 290-310), called through window.autoFillTest
\* (lines 322-326) as soon as window.app is set, loaded or not
AutoFillForTesting ==
    /\ screen' = "assessment-screen"
    /\ answers' \in MockAnswers(answers, {questions[k] : k \in DOMAIN questions})
    /\ currentQuestionIndex' = Len(questions) - 1
    /\ UNCHANGED <<questions, lastResults, lastAlert, loaded, toolVars>>

NextApp ==
    \/ StartAssessment
    \/ RecordAnswer
    \/ PreviousQuestion
    \/ NextQuestion
    \/ SubmitAssessment
    \/ RestartAssessment
    \/ AutoFillForTesting

SpecApp == InitApp /\ [][NextApp]_vars

(***************************************************************************)
(* The web app from its construction on: init awaits loadQuestions before  *)
(* it installs the listeners (app.js lines 18-46).                         *)
(***************************************************************************)
InitAppLoading ==
    /\ pc = "app"
    /\ code = <<>>
    /\ fullCode = <<>>
    /\ invocations = 0
    /\ Fresh
    /\ questions = <<>>
    /\ screen = "welcome-screen"
    /\ answers = NoAnswers
    /\ currentQuestionIndex = 0
    /\ lastResults = UndefinedResults
    /\ lastAlert = "none"
    /\ vbJsCode = <<>>
    /\ loaded = FALSE
    /\ scores = InitializeScales
    /\ scoredAnswers = <<>>
    /\ repeatable = TRUE

\* loadQuestions (lines 36-46) returns: the fetch has delivered the questions,
\* or it has failed and the catch block alerts
LoadQuestions ==
    /\ ~loaded
    /\ loaded' = TRUE
    /\ \E fetched \in BOOLEAN :
         IF fetched
         THEN questions' \in QuestionLists /\ UNCHANGED lastAlert
         ELSE lastAlert' = "failed to load" /\ UNCHANGED questions
    /\ UNCHANGED <<screen, answers, currentQuestionIndex, lastResults, toolVars>>

NextAppLoading ==
    \/ LoadQuestions
    \/ NextApp

SpecAppLoading == InitAppLoading /\ [][NextAppLoading]_vars

(***************************************************************************)
(* One AssessmentEngine on its own (assessment-engine.js): answers are     *)
(* recorded and calculateScores is called, in any order.  scoredAnswers    *)
(* holds the answers of the last call of calculateScores, and repeatable   *)
(* tells whether that call, when the call before it saw the same answers,  *)
(* gave every scale the value the call before had given it.                *)
(***************************************************************************)
InitScores ==
    /\ pc = "engine"
    /\ code = <<>>
    /\ fullCode = <<>>
    /\ invocations = 0
    /\ Fresh
    /\ NoApp

scoresRest == <<pc, code, parserVars, transpilerVars, postVars, warnings, invocations,
                vbJsCode, loaded, questions, screen, currentQuestionIndex,
                lastResults, lastAlert>>

\* engine.recordAnswer(questionId, answer) (lines 52-54)
EngineRecord ==
    /\ pc = "engine"
    /\ \E questionId \in 1..MaxQuestions, answer \in AnswerValues :
         answers' = EngineRecordAnswer(answers, questionId, answer)
    /\ UNCHANGED <<engineVars, scoresRest>>

\* engine.calculateScores() (lines 86-149): the scales take the new values
CalculateScores ==
    /\ pc = "engine"
    /\ \E variance \in VarianceDraws :
         /\ scores' = CalculateScoresOf(answers, variance)
         /\ repeatable' = (scoredAnswers = <<answers>> => scores' = scores)
    /\ scoredAnswers' = <<answers>>
    /\ UNCHANGED <<answers, scoresRest>>

NextScores ==
    \/ EngineRecord
    \/ CalculateScores

SpecScores == InitScores /\ [][NextScores]_vars

(***************************************************************************)
(* VBScriptTranspiler.transpile (unnamed/part_006 lines 13-38): one call,  *)
(* one step per pass; vbJsCode is the local jsCode of transpile.           *)
(***************************************************************************)
InitVB ==
    /\ pc = "vbDeclarations"
    /\ code \in Programs
    /\ vbJsCode = code
    /\ fullCode = <<>>
    /\ invocations = 0
    /\ Fresh
    /\ questions = <<>>
    /\ screen = "welcome-screen"
    /\ answers = NoAnswers
    /\ currentQuestionIndex = 0
    /\ lastResults = UndefinedResults
    /\ lastAlert = "none"
    /\ loaded = TRUE
    /\ scores = InitializeScales
    /\ scoredAnswers = <<>>
    /\ repeatable = TRUE

vbRest == <<code, parserVars, transpilerVars, postVars, warnings, invocations,
            appVars, loaded, engineVars>>

\* jsCode = this._convertVariableDeclarations(jsCode)
VBVariableDeclarations ==
    /\ pc = "vbDeclarations"
    /\ vbJsCode' = ConvertVariableDeclarations(vbJsCode)
    /\ pc' = "vbFunctions"
    /\ UNCHANGED vbRest

\* jsCode = this._convertFunctions(jsCode)
VBFunctions ==
    /\ pc = "vbFunctions"
    /\ vbJsCode' = ConvertFunctions(vbJsCode)
    /\ pc' = "vbOperators"
    /\ UNCHANGED vbRest

\* jsCode = this._convertOperators(jsCode)
VBOperators ==
    /\ pc = "vbOperators"
    /\ vbJsCode' = ConvertOperators(vbJsCode)
    /\ pc' = "vbConditionals"
    /\ UNCHANGED vbRest

\* jsCode = this._convertConditionals(jsCode)
VBConditionals ==
    /\ pc = "vbConditionals"
    /\ vbJsCode' = ConvertConditionals(vbJsCode)
    /\ pc' = "vbLoops"
    /\ UNCHANGED vbRest

\* jsCode = this._convertLoops(jsCode)
VBLoops ==
    /\ pc = "vbLoops"
    /\ vbJsCode' = ConvertLoops(vbJsCode)
    /\ pc' = "vbArrays"
    /\ UNCHANGED vbRest

\* jsCode = this._convertArrays(jsCode)
VBArrays ==
    /\ pc = "vbArrays"
    /\ vbJsCode' = ConvertArrays(vbJsCode)
    /\ pc' = "vbObjectReferences"
    /\ UNCHANGED vbRest

\* jsCode = this._convertObjectReferences(jsCode)
VBObjectReferences ==
    /\ pc = "vbObjectReferences"
    /\ vbJsCode' = ConvertObjectReferences(vbJsCode)
    /\ pc' = "vbConcatenation"
    /\ UNCHANGED vbRest

\* jsCode = this._convertStringConcatenation(jsCode)
VBStringConcatenation ==
    /\ pc = "vbConcatenation"
    /\ vbJsCode' = ConvertStringConcatenation(vbJsCode)
    /\ pc' = "vbComments"
    /\ UNCHANGED vbRest

\* jsCode = this._convertComments(jsCode)
VBComments ==
    /\ pc = "vbComments"
    /\ vbJsCode' = ConvertComments(vbJsCode)
    /\ pc' = "vbMiscellaneous"
    /\ UNCHANGED vbRest

\* jsCode = this._convertMiscellaneous(jsCode)
VBMiscellaneous ==
    /\ pc = "vbMiscellaneous"
    /\ vbJsCode' = ConvertMiscellaneous(vbJsCode)
    /\ pc' = "vbDone"
    /\ UNCHANGED vbRest

NextVB ==
    \/ VBVariableDeclarations
    \/ VBFunctions
    \/ VBOperators
    \/ VBConditionals
    \/ VBLoops
    \/ VBArrays
    \/ VBObjectReferences
    \/ VBStringConcatenation
    \/ VBComments
    \/ VBMiscellaneous

SpecVB == InitVB /\ [][NextVB]_vars

(***************************************************************************)
(* The properties.  The state after one iteration of the loop of           *)
(* _transpileBody shows the token the iteration worked on and the line it  *)
(* pushed last.                                                            *)
(***************************************************************************)
\* the function _transpileBody is working on
CurrentFunction == parsed.functions[funcIdx]

\* an iteration of the loop of _transpileBody has run
Stepped == pc = "body" /\ body.i > 1 /\ Len(body.lines) > 0

\* the token the last iteration ended on, and the line pushed last
LastToken == CurrentFunction.bodyTokens[body.i - 1]
LastLine == body.lines[Len(body.lines)]

\* the loop of _transpileBody is over
BodyDone == pc = "body" /\ body.i > Len(CurrentFunction.bodyTokens)

\* the braces of a text
Opens(text) == CountChar(text, "{")
Closes(text) == CountChar(text, "}")

\* /\bname\(/
ReParenAccess(name) == <<WordB>> \o Lit(name) \o Lit(<<"(">>)

\* a parenthesis-style access to one of the arrays is in the text
ParenAccessRemains(text, arrays) ==
    \E k \in DOMAIN arrays : Test(text, ReParenAccess(arrays[k]))

\* C1: after transpile and process, no parenthesis-style access X(...) to a
\* container X declared with dim (globally or locally) is left in the text
C1_NoParenAccessLeft ==
    (pc = "processed" /\ Len(code) > 0)
      => ~ParenAccessRemains(outputs[1], kb.knownArrays)

\* /(^|then\s+)name\s*=/i: the statement assigns to name, as a plain line or as
\* the action of a single-line if
ReAssignsTo(name) ==
    <<Alt(<<Bol>>, LitI(<<"t","h","e","n">>) \o <<Plus(SpaceCh)>>)>> \o LitI(name)
      \o <<Star(SpaceCh)>> \o Lit(<<"=">>)

\* /\bname\s*=/: name is the left side of an assignment or a comparison
ReLeftSide(name) == <<WordB>> \o LitI(name) \o <<Star(SpaceCh)>> \o Lit(<<"=">>)

ReturnEmitted(line, name) ==
    Includes(line, <<"r","e","t","u","r","n"," ">>) /\ ~Test(line, ReLeftSide(name))

\* C2: a statement F = expr in the body of function F, as a plain line or as the
\* action of a single-line if, is emitted as return <expr>; and never as an
\* assignment or a comparison with F on its left side
C2_ReturnForOwnName ==
    (Stepped /\ LastToken.type = "STATEMENT"
       /\ CurrentFunction.type = <<"f","u","n","c","t","i","o","n">>
       /\ Test(LastToken.value, ReAssignsTo(CurrentFunction.name)))
      => ReturnEmitted(LastLine, CurrentFunction.name)

\* /\bname\b([^(]|$)/: name as a bare value reference
ReBareReference(name) ==
    <<WordB>> \o Lit(name) \o <<WordB, Alt(<<NotOne({"("})>>, <<Eol>>)>>

\* the names of locals, a sequence of declarations
IsLocal(name, locals) == \E k \in DOMAIN locals : locals[k].name = name

BareCallable(line, func, functions) ==
    \E k \in DOMAIN functions :
       /\ functions[k] # func.name
       /\ ~IsLocal(functions[k], func.localVariables)
       /\ Test(line, ReBareReference(functions[k]))

\* C3: in an emitted statement no known function name (other than a local of
\* the enclosing function) stands as a bare value reference: it is followed
\* by "("
C3_CallableInvoked ==
    (Stepped /\ LastToken.type = "STATEMENT")
      => ~BareCallable(LastLine, CurrentFunction, kb.knownFunctions)

\* C4: process(process(t)) = process(t)
C4_ProcessIdempotent ==
    Len(outputs) >= 2 => outputs[2] = outputs[1]

\* the line opens a block with a condition: if, else if, while
IsConditionHeader(trimmed) ==
    /\ EndsWith(trimmed, <<")"," ","{">>)
    /\ \/ StartsWith(trimmed, <<"i","f"," ","(">>)
       \/ StartsWith(trimmed, <<"}"," ","e","l","s","e"," ","i","f"," ","(">>)
       \/ StartsWith(trimmed, <<"w","h","i","l","e"," ","(">>)

\* C5: the condition emitted for a block if, an elseif or a do while has no
\* lone "=": every "=" is part of an operator of two or more characters
C5_NoLoneEqualsInCondition ==
    (Stepped /\ IsConditionHeader(Trim(LastLine)))
      => ~Test(LastLine, ReLoneEquals)

\* /^[\w.()]+\s*=[^=]/: the statement assigns to a name, an element or a member
ReAssignmentStatement ==
    <<Bol, Plus(WordCh \cup {".", "(", ")"}), Star(SpaceCh)>> \o Lit(<<"=">>)
      \o <<NotOne({"="})>>

\* C6: an assignment statement target = expr, whatever the shape of its
\* target, is emitted with a single "=": never with "==="
C6_AssignmentKeepsEquals ==
    (Stepped /\ LastToken.type = "STATEMENT"
       /\ Test(LastToken.value, ReAssignmentStatement))
      => ~Includes(LastLine, <<"=","=","=">>)

\* /^if\s+.+\s+then\s+\S/i: a single-line if
ReSingleLineIf ==
    <<Bol>> \o LitI(<<"i","f">>) \o <<Plus(SpaceCh), DotPlus, Plus(SpaceCh)>>
      \o LitI(<<"t","h","e","n">>) \o <<Plus(SpaceCh), NotOne(SpaceCh)>>

\* if (...) { ...; } on one line
IsBracedIf(trimmed) ==
    /\ StartsWith(trimmed, <<"i","f"," ","(">>)
    /\ Includes(trimmed, <<")"," ","{"," ">>)
    /\ EndsWith(trimmed, <<";"," ","}">>)

\* C7: a single-line if is emitted as one braced statement if (c) { a; }, and
\* the indent level after it is the one its line was pushed at
C7_SingleLineIfBraced ==
    (Stepped /\ LastToken.type = "STATEMENT"
       /\ Test(LastToken.value, ReSingleLineIf))
      => /\ IsBracedIf(Trim(LastLine))
         /\ Len(LeadingSpace(LastLine)) = 2 * body.indentLevel

\* the line before the one pushed last ends the body of a case clause
ClauseBodyBefore(lines) ==
    /\ Len(lines) > 1
    /\ ~StartsWith(Trim(lines[Len(lines) - 1]), <<"s","w","i","t","c","h"," ","(">>)

\* C8: in a switch, break; stands after the body of each clause: before the
\* next clause label and before the closing brace
C8_BreakAfterClause ==
    (Stepped /\ LastToken.type = "STATEMENT"
       /\ (Test(LastToken.value, ReCaseTest) \/ Test(LastToken.value, ReEndSelect))
       /\ ClauseBodyBefore(body.lines))
      => Trim(body.lines[Len(body.lines) - 1]) = <<"b","r","e","a","k",";">>

\* C9: when the body of a function has been reconstructed, its lines have as
\* many opening as closing braces, or a diagnostic has been recorded
C9_BalancedOrDiagnosed ==
    BodyDone
      => \/ Opens(JoinNL(body.lines)) = Closes(JoinNL(body.lines))
         \/ Len(unknownTokens) > 0
         \/ Len(warnings) > 0

\* the braces process leaves in its output out, for an input with o opening
\* and c closing braces
BracesOfProcess(out, o, c) ==
    /\ Opens(out) = o
    /\ Closes(out) = Max({o, c})
    /\ o > c => EndsWith(out, Repeat(<<"}">>, o - c) \o <<"\n">>)
    /\ Opens(out) <= Closes(out)

\* the last call of process: its input, its output, the growth of syntaxIssues
LastInput == inputs[Len(inputs)]
LastOutput == outputs[Len(outputs)]
SyntaxIssuesGrowth == fixes.syntaxIssues - fixesBefore[Len(fixesBefore)].syntaxIssues

NextBoundary(toks, i) ==
    IF \E j \in (i + 1)..Len(toks) : toks[j].type \in {"FUNCTION_START", "FUNCTION_END"}
    THEN Min({j \in (i + 1)..Len(toks) :
                toks[j].type \in {"FUNCTION_START", "FUNCTION_END"}})
    ELSE 0

\* a function or sub start line has no end line before the next start line or
\* the end of the input
Unterminated(toks) ==
    \E i \in DOMAIN toks :
       /\ toks[i].type = "FUNCTION_START"
       /\ \/ NextBoundary(toks, i) = 0
          \/ toks[NextBoundary(toks, i)].type = "FUNCTION_START"

\* C11: when a function or sub start line has no matching end line, parse does
\* not complete and transpile returns no text
C11_UnterminatedUnitFails ==
    Unterminated(tokens) => (pc \in {"buildAST", "failed"} /\ fullCode = <<>>)

\* the elements of a Set kept in insertion order
SeqSet(seq) == {seq[i] : i \in DOMAIN seq}

\* the names of the sized declarations among decls
SizedNames(decls) == {decls[i].name : i \in {j \in DOMAIN decls : decls[j].isArray}}

\* the names of the sized declarations of a parsed program, global and local
ContainerNamesOf(p) ==
    SizedNames(p.globalVariables)
      \cup UNION {SizedNames(p.functions[i].localVariables) : i \in DOMAIN p.functions}

\* the names of the functions and subs of a parsed program
CallableNamesOf(p) == {p.functions[i].name : i \in DOMAIN p.functions}

\* C12: from the end of _buildKnowledgeBase to the end of the invocation, in
\* every call of transpile on the object, knownArrays holds exactly the sized
\* declarations of the program of this call and knownFunctions exactly its
\* function names
C12_KnowledgeOfThisProgram ==
    pc \in {"functions", "body", "transpiled"} =>
        /\ SeqSet(kb.knownArrays) = ContainerNamesOf(parsed)
        /\ SeqSet(kb.knownFunctions) = CallableNamesOf(parsed)

\* the knowledge base holds every sized declaration and every function name of
\* the parsed program
KnowledgeComplete ==
    /\ ContainerNamesOf(parsed) \subseteq SeqSet(kb.knownArrays)
    /\ CallableNamesOf(parsed) \subseteq SeqSet(kb.knownFunctions)

\* the containers declared behind the end line of func
LateContainers(func) ==
    {tokens[j].name : j \in {k \in DOMAIN tokens :
        /\ tokens[k].type = "VARIABLE_DECLARATION"
        /\ tokens[k].isArray
        /\ tokens[k].line > func.endLine}}

\* C13: when a statement of a function has been transpiled, the knowledge base
\* held the names of the whole program, and the emitted line has no
\* parenthesis access left to a container declared behind the function
C13_LateContainerRewritten ==
    Stepped =>
        /\ KnowledgeComplete
        /\ \A name \in LateContainers(CurrentFunction) :
             ~Test(LastLine, ReParenAccess(name))

\* the names that are both a known container and a known function
AmbiguousNames == SeqSet(kb.knownArrays) \cap SeqSet(kb.knownFunctions)

\* C14: once the knowledge base is built with a name that is both a container
\* and a function, a diagnostic has been recorded, and a line emitted for a
\* statement has no parenthesis access to such a name left
C14_AmbiguityDiagnosed ==
    (pc \in {"functions", "body", "transpiled"} /\ AmbiguousNames # {}) =>
        /\ Len(warnings) > 0 \/ Len(unknownTokens) > 0
        /\ Stepped => \A name \in AmbiguousNames : ~Test(LastLine, ReParenAccess(name))

\* an object-creation call, in any letter case, for something else than the
\* file-system object
UnmappedCreation(value) ==
    /\ Includes(ToLowerCase(value), <<"c","r","e","a","t","e","o","b","j","e","c","t">>)
    /\ ~Includes(ToLowerCase(value), <<"f","i","l","e","s","y","s","t","e","m","o","b","j","e","c","t">>)

\* the line is a comment: nothing of it is live code
IsInert(line) ==
    StartsWith(TrimStart(line), <<"/","/">>) \/ StartsWith(TrimStart(line), <<"/","*">>)

\* C15: when the statement just transpiled is an object-creation call the
\* transpiler has no mapping for, the call is counted in unknownTokens and the
\* line emitted for it is inert text
C15_UnknownConstructRecorded ==
    (Stepped /\ UnmappedCreation(LastToken.value)) =>
        (Len(unknownTokens) > 0 /\ IsInert(LastLine))

\* C16: after the first call of process, an output that is left with unequal
\* numbers of opening and closing braces comes with a total of getStats
\* greater than zero
C16_UnbalancedIsCounted ==
    (pc = "processed" /\ Len(outputs) = 1 /\ Opens(outputs[1]) # Closes(outputs[1]))
      => GetStats.total > 0

\* the character at p is an '&' with no '&' next to it
SingleAmpersandAt(s, p) ==
    /\ s[p] = "&"
    /\ p = 1 \/ s[p - 1] # "&"
    /\ p = Len(s) \/ s[p + 1] # "&"

HasSingleAmpersand(s) == \E p \in DOMAIN s : SingleAmpersandAt(s, p)

\* C17: the line emitted for a statement or a condition holds no single '&':
\* every concatenation operator of the source has become '+'
C17_NoSingleAmpersandLeft == Stepped => ~HasSingleAmpersand(LastLine)

\* C18: when transpile has returned for a program that declares dim foo(5) and
\* holds the statement foo(3) = foo(3) + 1, the text declares an array of
\* 5 + 1 elements and holds the statement with bracket access
C18_ContainerStatementEmitted ==
    (/\ pc = "transpiled"
     /\ Includes(code, <<"d","i","m"," ","f","o","o","(","5",")">>)
     /\ Includes(code, <<"f","o","o","(","3",")"," ","="," ","f","o","o","(","3",")"," ","+"," ","1">>))
      => /\ Includes(fullCode, <<"n","e","w"," ","A","r","r","a","y","(","5"," ","+"," ","1",")">>)
         /\ Includes(fullCode, <<"f","o","o","[","3","]"," ","="," ","f","o","o","[","3","]"," ","+"," ","1",";">>)

\* every loaded question has a recorded answer
AllAnswered == \A k \in DOMAIN questions : questions[k] \in DOMAIN answers

\* this.lastResults holds results
ResultsSet == lastResults.kind = "results"

\* the step brings up the results screen or stores results
ShowsResults ==
    \/ screen' = "results-screen" /\ screen # "results-screen"
    \/ lastResults' # lastResults /\ lastResults'.kind = "results"

\* C19: in the web app, whatever events came before, the results screen is up
\* or lastResults holds results only when every loaded question has a recorded
\* answer; a step brings up the results or stores them only when every
\* question is answered at that moment; and submitAssessment with a question
\* unanswered leaves the screen, the answers and lastResults as they were
C19_ResultsOnlyWhenComplete ==
    /\ []((screen = "results-screen" \/ ResultsSet) => AllAnswered)
    /\ [][ShowsResults => AllAnswered]_vars
    /\ [][(SubmitAssessment /\ ~AllAnswered) => UNCHANGED <<screen, answers, lastResults>>]_vars

\* a submit was refused with questions remaining, and a later one, with all of
\* two or more questions answered, brought up the results
C19_Witness ==
    /\ screen = "results-screen"
    /\ lastResults = GetResults(answers)
    /\ lastAlert = "questions remaining"
    /\ Len(questions) >= 2
    /\ AllAnswered

\* the line is a clause label standing as code
LiveLabel(line) ==
    StartsWith(Trim(line), <<"c","a","s","e"," ">>) \/ Trim(line) = <<"d","e","f","a","u","l","t",":">>

\* C20: when _fixMisplacedCaseStatements has run on a text without any
\* switch, no line of its result is a clause label standing as code
C20_NoLiveLabelOutsideSwitch ==
    (pc = "semicolons" /\ ~Includes(result, <<"s","w","i","t","c","h">>))
      => \A k \in DOMAIN SplitNL(result) : ~LiveLabel(SplitNL(result)[k])

\* the statement is the loop line of a loop tested at the bottom
IsBottomTest(value) ==
    \/ StartsWith(ToLowerCase(value), <<"l","o","o","p"," ","w","h","i","l","e"," ">>)
    \/ StartsWith(ToLowerCase(value), <<"l","o","o","p"," ","u","n","t","i","l"," ">>)

\* C21: the line emitted for a lone do opens a block, and the line emitted for
\* loop while <cond> or loop until <cond> starts with the closing brace (the
\* trailing condition follows it)
C21_BottomTestedLoopClosed ==
    (Stepped /\ LastToken.type = "STATEMENT") =>
        /\ ToLowerCase(LastToken.value) = <<"d","o">> => EndsWith(LastLine, <<"{">>)
        /\ IsBottomTest(LastToken.value) => StartsWith(Trim(LastLine), <<"}">>)

\* the token opens a block: if ... then, for, do while, select case
IsOpener(token) ==
    \/ token.type \in {"IF_STATEMENT", "FOR_LOOP"}
    \/ token.type = "STATEMENT"
         /\ (Test(token.value, ReDoWhileTest) \/ Test(token.value, ReSelectTest))

\* the token closes a block: end if, next, loop, end select
IsCloser(token) ==
    /\ token.type = "STATEMENT"
    /\ \/ Test(token.value, ReEndIf) \/ Test(token.value, ReNext)
       \/ Test(token.value, ReLoop) \/ Test(token.value, ReEndSelect)

\* the body tokens are made of complete blocks: before every token at least
\* as many blocks were opened as closed, and at the end all are closed
CompleteBlocks(toks) ==
    /\ \A n \in 0..Len(toks) :
         Cardinality({k \in 1..n : IsOpener(toks[k])})
           >= Cardinality({k \in 1..n : IsCloser(toks[k])})
    /\ Cardinality({k \in DOMAIN toks : IsOpener(toks[k])})
         = Cardinality({k \in DOMAIN toks : IsCloser(toks[k])})

\* the body holds a select case line
HasSelect(toks) ==
    \E k \in DOMAIN toks : toks[k].type = "STATEMENT" /\ Test(toks[k].value, ReSelectTest)

\* C22: when the loop of _transpileBody is over for a body made of complete
\* blocks with a select case ... end select among them, indentLevel is back at
\* the depth it started with
C22_DepthRestored ==
    (/\ BodyDone
     /\ CompleteBlocks(CurrentFunction.bodyTokens)
     /\ HasSelect(CurrentFunction.bodyTokens))
      => body.indentLevel = 1

\* C23: while a function body is transpiled, indentLevel is never below zero
\* and no line is emitted at a negative depth (String.repeat would throw)
C23_DepthNeverNegative ==
    pc \in {"body", "failed"} => (body.indentLevel >= 0 /\ ~body.threw)

\* C24: after _tokenize has finished without throwing, there is exactly one
\* token for every line of the source, in order, the k-th token carrying the
\* line number k
C24_OneTokenPerLine ==
    (pc = "buildAST") =>
        /\ Len(tokens) = Len(SplitNL(code))
        /\ \A k \in DOMAIN tokens : tokens[k].line = k

\* the k-th token stands outside every function and sub: every start line
\* before it has its end line before it (no currentNode in _buildAST)
IsGlobal(k) ==
    Cardinality({j \in 1..(k - 1) : tokens[j].type = "FUNCTION_START"})
      = Cardinality({j \in 1..(k - 1) : tokens[j].type = "FUNCTION_END"})

\* the statement tokens at global scope
GlobalStatements == {k \in DOMAIN tokens : tokens[k].type = "STATEMENT" /\ IsGlobal(k)}

\* what _transpileStatement makes of a global statement (the functions of the
\* inputs are not assigned to at global scope, so the return rule is idle)
GlobalStatementText(token) ==
    TranspileStatement(token.value, parsed.functions[1], IdentifyTokenType(token),
                       kb.knownArrays).text

\* C25: when transpile has returned, every statement at global scope is in the
\* text as an emitted statement, or a diagnostic was recorded
C25_GlobalStatementKept ==
    (pc = "transpiled" /\ Len(parsed.functions) > 0) =>
        \A k \in GlobalStatements :
            \/ Includes(fullCode, GlobalStatementText(tokens[k]))
            \/ Len(warnings) > 0
            \/ Len(unknownTokens) > 0

\* the names declared as containers locally in other functions than the g-th,
\* and neither globally nor in the g-th itself
ForeignContainers(g) ==
    (UNION {SizedNames(parsed.functions[f].localVariables) :
              f \in DOMAIN parsed.functions \ {g}})
      \ (SizedNames(parsed.globalVariables) \cup SizedNames(parsed.functions[g].localVariables))

\* C26: the line emitted for a statement of a function holds no bracket
\* access to a name that is a container only by a local declaration of
\* another function
C26_ForeignLocalNotRewritten ==
    Stepped => \A name \in ForeignContainers(funcIdx) : ~Includes(LastLine, name \o <<"[">>)

\* the name a line declares with function or sub, <<>> when it declares none
ReVBDeclaration ==
    <<Bol, Star(SpaceCh)>> \o <<Alt(LitI(<<"f","u","n","c","t","i","o","n">>), LitI(<<"s","u","b">>))>> \o <<Plus(SpaceCh)>> \o Grp(1, <<Plus(WordCh)>>)

ReVBEnd ==
    <<Bol, Star(SpaceCh)>> \o LitI(<<"e","n","d">>) \o <<Plus(SpaceCh)>> \o <<Alt(LitI(<<"f","u","n","c","t","i","o","n">>), LitI(<<"s","u","b">>))>>

VBDeclaredName(line) ==
    IF Test(line, ReVBDeclaration) THEN Cap(line, Exec(line, ReVBDeclaration, 1), 1) ELSE <<>>

\* the name of the function or sub whose body holds line k, <<>> outside of all
VBEnclosingName(lines, k) ==
    LET starts == {j \in 1..(k - 1) :
                     /\ Test(lines[j], ReVBDeclaration)
                     /\ \A i \in (j + 1)..(k - 1) : ~Test(lines[i], ReVBEnd)}
    IN  IF starts = {} THEN <<>>
        ELSE VBDeclaredName(lines[CHOOSE j \in starts : \A i \in starts : i <= j])

\* the line holds name = expr
IsAssignmentTo(line, name) ==
    /\ name # <<>>
    /\ Test(line, <<WordB>> \o LitI(name) \o <<Star(SpaceCh)>> \o Lit(<<"=">>))

\* C27: when VBScriptTranspiler.transpile is done, a line of the result holds
\* a return statement only if the line of the source it comes from holds an
\* assignment to the name of the function or sub whose body holds it
\* (compared line by line, for the programs whose line count transpile keeps)
C27_ReturnOnlyForOwnName ==
    (pc = "vbDone" /\ Len(SplitNL(vbJsCode)) = Len(SplitNL(code))) =>
        \A k \in 1..Len(SplitNL(code)) :
            Includes(SplitNL(vbJsCode)[k], <<"r","e","t","u","r","n"," ">>) =>
                IsAssignmentTo(SplitNL(code)[k], VBEnclosingName(SplitNL(code), k))

\* the brace depth behind line i of the lines
DepthAfter(lines, i) ==
    LET RECURSIVE Sum(_)
        Sum(l) == IF l = 0 THEN 0
                  ELSE Sum(l - 1) + CountChar(lines[l], "{") - CountChar(lines[l], "}")
    IN  Sum(i)

\* line k lies inside a switch block that is still open: some switch line
\* before it opened a block that no line up to k has closed
InOpenSwitch(lines, k) ==
    \E j \in 1..(k - 1) :
        /\ StartsWith(Trim(lines[j]), <<"s","w","i","t","c","h">>)
        /\ \A i \in j..(k - 1) : DepthAfter(lines, i) > DepthAfter(lines, j - 1)

\* the line is a clause label the pass has commented out
CommentedLabel(line) == Includes(line, <<"F","I","X","M","E",":"," ","m","i","s","p","l","a","c","e","d"," ","c","a","s","e">>)

\* C28: when _fixMisplacedCaseStatements has run, no clause label inside an
\* open switch block is commented out, and the pass has counted no more
\* labels than stand outside of every open switch block
C28_LabelInsideSwitchKept ==
    pc = "semicolons" =>
        LET lines == SplitNL(result)
            outside == {k \in DOMAIN lines :
                          /\ LiveLabel(lines[k]) \/ CommentedLabel(lines[k])
                          /\ ~InOpenSwitch(lines, k)}
        IN  /\ \A k \in DOMAIN lines : InOpenSwitch(lines, k) => ~CommentedLabel(lines[k])
            /\ fixes.syntaxIssues - fixesBefore[Len(fixesBefore)].syntaxIssues
                 <= Cardinality(outside)

\* C29: once the questions are loaded, currentQuestionIndex is the index of
\* a question, and every question at an index below it has a recorded answer
C29_IndexValidOnceLoaded ==
    (loaded /\ Len(questions) > 0) =>
        /\ HasCurrentQuestion
        /\ \A k \in 1..currentQuestionIndex : questions[k] \in DOMAIN answers

\* C30: a call of calculateScores that follows a call on the same answers
\* gives each of the 26 scales the value the call before gave it
C30_ScoresRepeatable == repeatable

==============================================================================
